---- MODULE Spec2Model ----
(***************************************************************************)
(* A model of the relay engine of webui/service/relay.go.                  *)
(*                                                                         *)
(* Part 1 (specification Spec): the RelayManager under concurrent callers. *)
(* Every call of Start, Stop and StopAll is a sequence of steps, one per   *)
(* access to shared state (the sync.Map of instances, an instance's stop   *)
(* channel and sockets), so that calls interleave the way goroutines of    *)
(* the HTTP handlers do.  A behaviour holds NumCalls calls; the instance a *)
(* Start call makes is known by the number of that call.                   *)
(*                                                                         *)
(* Part 2 (TaskSpec): one instance's life, with its three long-running     *)
(* tasks (TCP accept loop, UDP receive loop, status-push sampler).         *)
(*                                                                         *)
(* Part 3 (FlowSpec): one instance's data plane: the TCP connections it    *)
(* accepts and the UDP sessions it opens, each with its own tasks, and     *)
(* the peers at both ends.                                                 *)
(***************************************************************************)
EXTENDS Integers, FiniteSets, Sequences, TLC

\* ---------------------------------------------------------------- bounds
NumCalls == 3      \* manager calls in one behaviour, any of them concurrent
MaxFlows == 2      \* flows (TCP connections, UDP sessions) in one behaviour
MaxLen == 1        \* bytes in one write or datagram
MaxBytes == 2      \* bytes an instance relays in one direction
MaxInserts == 102  \* flows that end in one behaviour of HistSpec
BurstLen == 100    \* bytes relayed at once in RateSpec
InboxCap == 2      \* slots of a subscriber's inbox (the code makes 256)
MaxSamples == 4    \* samples published in one behaviour of HubSpec
MaxBursts == 2     \* bursts per direction in one behaviour of RateSpec

\* Two rule ids, and one listen address that rules of either id may name.
RuleIds == {1, 2}
Srcs == {1}
Callers == 1..NumCalls
InstIds == Callers
FlowIds == 1..MaxFlows

\* One UDP client address.
Addrs == {1}

\* rule.Protocol: the three values Start interprets, and "other" for any
\* other string (Start compares against "tcp", "udp" and "both" only).
Protocols == {"tcp", "udp", "both", "other"}

\* model.RelayRule, as far as the engine reads it
Rules == [id : RuleIds, src : Srcs, protocol : Protocols]

NoRule == [id |-> 0, src |-> 0, protocol |-> "other"]

VARIABLES
  instances,   \* RelayManager.instances: rule id -> instance (0: no entry)
  inst,        \* the RelayInstance objects, by the call that made them
  call,        \* per call: where it stands
  flow,        \* the relayed flows: TCP connections and UDP sessions
  hub,         \* the WSHub, its subscribers and its publisher
  auth         \* the sessions table, its two caches, what was revoked

vars == <<instances, inst, call, flow, hub, auth>>

\* ------------------------------------------------------------ the state

\* A RelayInstance as made by Start: stop channel open, no sockets, no task.
\*   stopCh      "open" | "closed"
\*   tcpListener "nil" | "bound" | "closed"
\*   udpConn     "nil" | "bound" | "closed"
\*   accept      the accept loop: "none" | "run" | "done"
\*   udpLoop     the receive loop: "none" | "run" | "done"
\*   sampler     pushStatus: "none" | "run" | "done"
\*   connections the active-flow map: the flows stored in it
\*   connCount   the active-flow counter
\*   history     the finished flows, newest first
\*   clients     the receive loop's map from client address to session
\*   udpPc       where the receive loop stands in handling a datagram:
\*               "idle" | "store" | "count" | "write"; it holds the
\*               loop's mutex in "store" and "count"
\*   udpCur      the session of the datagram being handled
\*   udpLen      the length of the datagram being handled
\*   bytesIn, bytesOut           the instance's byte totals
\*   lastBytesIn, lastBytesOut   the totals at the sampler's last tick
\*   smoothSpeedIn, smoothSpeedOut   the smoothed rates (see Ema)
\*   traffic     the payload of the last relay.traffic sample published
\*   tick        where pushStatus stands in a tick: "idle" | "hist" (it
\*               has copied the active flows) | "rate" (it has published
\*               relay.connections)
\*   conns       the relay.connections payload being built, or published
\*               last: the copies of the records, in order
NewInstance(rule) ==
  [alloc |-> TRUE, rule |-> rule, stopCh |-> "open",
   tcpListener |-> "nil", udpConn |-> "nil",
   accept |-> "none", udpLoop |-> "none", sampler |-> "none",
   connections |-> {}, connCount |-> 0, history |-> <<>>,
   clients |-> [a \in Addrs |-> 0], udpPc |-> "idle", udpCur |-> 0,
   udpLen |-> 0, bytesIn |-> 0, bytesOut |-> 0,
   lastBytesIn |-> 0, lastBytesOut |-> 0,
   smoothSpeedIn |-> 0, smoothSpeedOut |-> 0,
   traffic |-> [bytes_in |-> 0, bytes_out |-> 0, bytes_in_speed |-> 0,
                bytes_out_speed |-> 0, connections |-> 0],
   tick |-> "idle", conns |-> <<>>]

FreeSlot == [NewInstance(NoRule) EXCEPT !.alloc = FALSE]

\* A flow: a TCP connection with its handler and two copiers, or a UDP
\* session with its response reader.
\*   kind      "none" | "tcp" | "udp"
\*   inst      the instance it belongs to
\*   pc        handleTCP: "dial" | "store" | "count" | "copy" | "uncount"
\*                        | "hist" | "done"
\*             reader:    "new" | "read" | "fwd" | "cleanup" | "delete"
\*                        | "uncount" | "hist" | "done"
\*   cin, cout the copiers client->target, target->client:
\*             "none" | "run" | "done"
\*   client    the accepted socket: "nil" | "open" | "closed"
\*   remote    the dialed socket: "nil" | "open" | "closed"
\*   clientEOF the client has closed its end
\*   remoteEOF the target has closed its end
\*   addr      the UDP client's address
\*   pending   datagrams of the target waiting to be read
\*   plen      the length of the waiting datagram
\*   rlen      the length of the datagram the reader has read
\*   cntIn, cntOut   the flow-local byte counters (handleTCP's bytesIn and
\*             bytesOut; udpClient.bytesIn and bytesOut)
\*   recIn, recOut   BytesIn and BytesOut of the flow's Connection record
\*   wIn, wOut where a copier stands in countingWriter.Write:
\*             "idle" | "total" | "record"
\*   wlenIn, wlenOut   the length of the write in progress
\*   active    Active of the flow's Connection record
\*   clientShut, remoteShut   CloseWrite has been called on the socket
\*   errIn, errOut   the copier's io.Copy has met an I/O error
\*   sunkIn, sunkOut   the bytes the target's socket, and the client's, have
\*             taken from the copiers
\*   log       the calls made to the store for the flow, in order
\*   statIn, statOut   the byte counts passed to SaveRelayStat
\*   duration  who wrote Duration of the record last: "zero" (nobody: the
\*             field is as the record was made) | "final" (the flow's
\*             handler or reader) | "live" (GetConnections)
NoFlow ==
  [kind |-> "none", inst |-> 0, pc |-> "none", cin |-> "none",
   cout |-> "none", client |-> "nil", remote |-> "nil",
   clientEOF |-> FALSE, remoteEOF |-> FALSE, addr |-> 0, pending |-> 0,
   plen |-> 0, rlen |-> 0, cntIn |-> 0, cntOut |-> 0,
   recIn |-> 0, recOut |-> 0, wIn |-> "idle", wOut |-> "idle",
   wlenIn |-> 0, wlenOut |-> 0, active |-> FALSE,
   clientShut |-> FALSE, remoteShut |-> FALSE,
   errIn |-> FALSE, errOut |-> FALSE, sunkIn |-> 0, sunkOut |-> 0,
   log |-> <<>>, statIn |-> 0, statOut |-> 0, duration |-> "zero"]

\* The subscribers of the hub, and what they can subscribe to.
Subs == {1, 2}

Topics == {"relay.traffic", "relay.connections"}

\* WSClient.relayID: 0 stands for the empty string.
RelayFilters == {0} \cup RuleIds

\* A WSClient.
\*   state    "none" | "live" (its pumps run) | "unreg" (readPump has ended
\*            and waits to hand the client to the unregister channel)
\*            | "gone"
\*   topics, relayID   the subscription
\*   send     the inbox: the samples queued, by their numbers
\*   closed   the inbox has been closed
\*   writer   writePump: "none" | "run" | "done"
\*   dropped  a publish found the inbox full and dropped the sample
NoClient ==
  [state |-> "none", topics |-> {}, relayID |-> 0, send |-> <<>>,
   closed |-> FALSE, writer |-> "none", dropped |-> FALSE]

\* NewWSHub: no client.  The publisher stands for the samplers' calls of
\* BroadcastToRelay:
\*   pc     "idle" | "loop" (holding the read lock, inside the range loop)
\*          | "panic"
\*   seq    the number of the sample being published, or published last
\*   relay, topic   what the sample is about
\*   todo   the clients the range loop has yet to visit
NewWSHub ==
  [clients |-> {},
   sub |-> [s \in Subs |-> NoClient],
   pub |-> [pc |-> "idle", seq |-> 0, relay |-> 0, topic |-> "none",
            todo |-> {}]]

\* RelayStatus{Running: false}, line 172.
NoStatus ==
  [running |-> FALSE, connections |-> 0, bytesIn |-> 0, bytesOut |-> 0]

\* A call not yet made.  status is what IsRunning or GetStatus returns.
Idle ==
  [op |-> "idle", pc |-> "idle", id |-> 0, inst |-> 0,
   res |-> "none", todo |-> {}, visited |-> {}, status |-> NoStatus]

\* The login tokens (generateToken, handler.go line 762: 32 random bytes).
NumTokens == 2

Tokens == 1 .. NumTokens

\* package model, session.go lines 16-20, before any login: the sessions
\* table (DB) holds no row, sessionCache and invalidTokens hold no entry.
\* An entry is "none" (absent), "live", or "expired" (present with its
\* expiry time in the past).  scope, after and issued record the calls made:
\*   issued   the tokens CreateSession was called with
\*   scope    per DeleteSession or DeleteAllSessions call, the tokens it is
\*            to revoke (DeleteSession: its token, unless a CreateSession
\*            is in progress with it; DeleteAllSessions: those issued
\*            before it began), less those that CreateSession was called
\*            with since
\*   after    per GetSession call, the revoking calls that had returned
\*            when it began
NoEntries == [t \in Tokens |-> "none"]

NewAuth ==
  [sessions |-> NoEntries, sessionCache |-> NoEntries,
   invalidTokens |-> NoEntries, issued |-> {},
   scope |-> [c \in Callers |-> {}], after |-> [c \in Callers |-> {}]]

\* NewRelayManager: an empty map.
NewRelayManager == [k \in RuleIds |-> 0]

Init ==
  /\ instances = NewRelayManager
  /\ inst = [i \in InstIds |-> FreeSlot]
  /\ call = [c \in Callers |-> Idle]
  /\ flow = [f \in FlowIds |-> NoFlow]
  /\ hub = NewWSHub
  /\ auth = NewAuth

\* net.Listen / net.ListenPacket fail with "address already in use" while
\* another socket of the same transport is bound to the address.
TcpPortBound(src) ==
  \E i \in InstIds : inst[i].alloc /\ inst[i].rule.src = src
                     /\ inst[i].tcpListener = "bound"

UdpPortBound(src) ==
  \E i \in InstIds : inst[i].alloc /\ inst[i].rule.src = src
                     /\ inst[i].udpConn = "bound"

WantsTCP(rule) == rule.protocol = "tcp" \/ rule.protocol = "both"

WantsUDP(rule) == rule.protocol = "udp" \/ rule.protocol = "both"

\* Calls are numbered in the order they begin.
LowestIdle(c) ==
  /\ call[c].op = "idle"
  /\ \A d \in Callers : d < c => call[d].op # "idle"

\* Rule ids are opaque strings: they are numbered in the order calls name them.
UsedIds ==
  {call[d].id : d \in Callers} \cup {inst[i].rule.id : i \in InstIds}

Nameable(id) == id = 1 \/ (id - 1) \in UsedIds

\* A call that has returned: what it was, and what it returned.
Returned(c, res) ==
  [call[c] EXCEPT !.pc = "done", !.res = res]

\* ---------------------------------------------------------------- Start

\* A Start that registers without looking (mutant of AlreadyRunning).
AlreadyRunningNever(rule) == FALSE

\* Start, line 87: the check for a registered instance.
AlreadyRunning(rule) == instances[rule.id] # 0

\* Where Start goes after making the instance, and after startTCP.
AfterMake(rule) ==
  IF WantsTCP(rule) THEN "tcp" ELSE IF WantsUDP(rule) THEN "udp" ELSE "store"

AfterTCP(rule) == IF WantsUDP(rule) THEN "udp" ELSE "store"

\* Start, lines 83-97: reject a registered id, else make the instance.
StartLoad(c, rule) ==
  /\ LowestIdle(c)
  /\ Nameable(rule.id)
  /\ IF AlreadyRunning(rule)
       THEN /\ call' = [call EXCEPT ![c] =
                 [Idle EXCEPT !.op = "start", !.pc = "done",
                              !.id = rule.id, !.res = "AlreadyRunning"]]
            /\ UNCHANGED <<instances, inst, flow, hub, auth>>
       ELSE /\ inst' = [inst EXCEPT ![c] = NewInstance(rule)]
            /\ call' = [call EXCEPT ![c] =
                 [Idle EXCEPT !.op = "start", !.pc = AfterMake(rule),
                              !.id = rule.id, !.inst = c]]
            /\ UNCHANGED <<instances, flow, hub, auth>>

\* startTCP, lines 238-266, as called at lines 100-107: bind the listener
\* and spawn the accept loop, or return the bind error.  The bind can fail
\* for a reason outside the engine (another process, permissions) at any time.
StartTCP(c) ==
  /\ call[c].op = "start" /\ call[c].pc = "tcp"
  /\ LET i == call[c].inst
         rule == inst[i].rule
     IN \/ /\ ~TcpPortBound(rule.src)
           /\ inst' = [inst EXCEPT ![i].tcpListener = "bound",
                                   ![i].accept = "run"]
           /\ call' = [call EXCEPT ![c].pc = AfterTCP(rule)]
        \/ /\ call' = [call EXCEPT ![c] = Returned(c, "TcpFail")]
           /\ UNCHANGED inst
  /\ UNCHANGED <<instances, flow, hub, auth>>

\* A failed startUDP that leaves the TCP listener bound (mutant of
\* UdpFailCleanup).
UdpFailCleanupLeak(r) == r

\* Start, lines 113-115: a failed startUDP closes the TCP listener, if any.
UdpFailCleanup(r) ==
  IF r.tcpListener # "nil" THEN [r EXCEPT !.tcpListener = "closed"] ELSE r

\* startUDP, lines 378-490, as called at lines 110-120.
StartUDP(c) ==
  /\ call[c].op = "start" /\ call[c].pc = "udp"
  /\ LET i == call[c].inst
         rule == inst[i].rule
     IN \/ /\ ~UdpPortBound(rule.src)
           /\ inst' = [inst EXCEPT ![i].udpConn = "bound",
                                   ![i].udpLoop = "run"]
           /\ call' = [call EXCEPT ![c].pc = "store"]
        \/ /\ inst' = [inst EXCEPT ![i] = UdpFailCleanup(inst[i])]
           /\ call' = [call EXCEPT ![c] = Returned(c, "UdpFail")]
  /\ UNCHANGED <<instances, flow, hub, auth>>

\* Start, line 122: m.instances.Store(rule.ID, instance).
StartStore(c) ==
  /\ call[c].op = "start" /\ call[c].pc = "store"
  /\ instances' = [instances EXCEPT ![call[c].id] = call[c].inst]
  /\ call' = [call EXCEPT ![c].pc = "spawn"]
  /\ UNCHANGED <<inst, flow, hub, auth>>

\* Start, lines 124-128: go instance.pushStatus(), return nil.
StartSpawn(c) ==
  /\ call[c].op = "start" /\ call[c].pc = "spawn"
  /\ inst' = [inst EXCEPT ![call[c].inst].sampler = "run"]
  /\ call' = [call EXCEPT ![c] = Returned(c, "ok")]
  /\ UNCHANGED <<instances, flow, hub, auth>>

\* ----------------------------------------------------------------- Stop

\* A Stop that leaves the TCP listener open (mutant of AfterCloseCh).
AfterCloseChSkipTCP(r) == IF r.udpConn # "nil" THEN "udpclose" ELSE "delete"

\* Where Stop goes after closing the stop channel, and after the listener.
AfterCloseCh(r) ==
  IF r.tcpListener # "nil" THEN "tcpclose"
  ELSE IF r.udpConn # "nil" THEN "udpclose" ELSE "delete"

AfterCloseTCP(r) == IF r.udpConn # "nil" THEN "udpclose" ELSE "delete"

\* Stop, lines 132-134: m.instances.Load(id).  Without an entry Stop returns
\* at once.  StopAll's Range callback enters here too, with the visited key.
StopLoadStep(c, id, op) ==
  IF instances[id] = 0
    THEN IF op = "stop"
           THEN [Idle EXCEPT !.op = "stop", !.pc = "done", !.id = id,
                             !.res = "ok"]
           ELSE [call[c] EXCEPT !.pc = "range", !.id = 0, !.inst = 0,
                                !.todo = @ \ {id}, !.visited = @ \cup {id}]
    ELSE [call[c] EXCEPT !.op = op, !.pc = "close", !.id = id,
                         !.inst = instances[id]]

StopLoad(c, id) ==
  /\ LowestIdle(c)
  /\ Nameable(id)
  /\ call' = [call EXCEPT ![c] = StopLoadStep(c, id, "stop")]
  /\ UNCHANGED <<instances, inst, flow, hub, auth>>

InStop(c) == call[c].op = "stop" \/ call[c].op = "stopall"

\* Stop, line 135: close(instance.stopCh).  Closing a closed channel panics:
\* the call ends there, with the rest of Stop not executed.
StopCloseCh(c) ==
  /\ InStop(c) /\ call[c].pc = "close"
  /\ LET i == call[c].inst
     IN IF inst[i].stopCh = "closed"
          THEN /\ call' = [call EXCEPT ![c] = Returned(c, "panic")]
               /\ UNCHANGED inst
          ELSE /\ inst' = [inst EXCEPT ![i].stopCh = "closed"]
               /\ call' = [call EXCEPT ![c].pc = AfterCloseCh(inst[i])]
  /\ UNCHANGED <<instances, flow, hub, auth>>

\* Stop, lines 136-138: instance.tcpListener.Close().
StopCloseTCP(c) ==
  /\ InStop(c) /\ call[c].pc = "tcpclose"
  /\ LET i == call[c].inst
     IN /\ inst' = [inst EXCEPT ![i].tcpListener = "closed"]
        /\ call' = [call EXCEPT ![c].pc = AfterCloseTCP(inst[i])]
  /\ UNCHANGED <<instances, flow, hub, auth>>

\* Stop, lines 139-141: instance.udpConn.Close().
StopCloseUDP(c) ==
  /\ InStop(c) /\ call[c].pc = "udpclose"
  /\ inst' = [inst EXCEPT ![call[c].inst].udpConn = "closed"]
  /\ call' = [call EXCEPT ![c].pc = "delete"]
  /\ UNCHANGED <<instances, flow, hub, auth>>

\* A Stop that leaves the map entry (mutant of DeleteEntry).
DeleteEntryKeep(m, id) == m

\* sync.Map.Delete, as called at line 142.
DeleteEntry(m, id) == [m EXCEPT ![id] = 0]

\* Stop, lines 142-144: m.instances.Delete(id), by key, and return.
StopDelete(c) ==
  /\ InStop(c) /\ call[c].pc = "delete"
  /\ instances' = DeleteEntry(instances, call[c].id)
  /\ call' = [call EXCEPT ![c] =
       IF call[c].op = "stop"
         THEN Returned(c, "ok")
         ELSE [call[c] EXCEPT !.pc = "range", !.todo = @ \ {call[c].id},
                              !.visited = @ \cup {call[c].id}]]
  /\ UNCHANGED <<inst, flow, hub, auth>>

\* -------------------------------------------------------------- StopAll

Present == {k \in RuleIds : instances[k] # 0}

\* StopAll, lines 148-149: m.instances.Range begins.  Every key present for
\* the whole of the Range is visited; todo holds those present at its start.
StopAllBegin(c) ==
  /\ LowestIdle(c)
  /\ call' = [call EXCEPT ![c] =
       [Idle EXCEPT !.op = "stopall", !.pc = "range", !.todo = Present]]
  /\ UNCHANGED <<instances, inst, flow, hub, auth>>

\* StopAll, lines 149-152: the Range visits a key it has not visited (one
\* present at the start, or stored since) and calls Stop on it.
StopAllVisit(c, k) ==
  /\ call[c].op = "stopall" /\ call[c].pc = "range"
  /\ k \notin call[c].visited
  /\ k \in call[c].todo \cup Present
  /\ call' = [call EXCEPT ![c] = StopLoadStep(c, k, "stopall")]
  /\ UNCHANGED <<instances, inst, flow, hub, auth>>

\* StopAll, line 153: the Range ends once it visited every key that was
\* present throughout.
StopAllEnd(c) ==
  /\ call[c].op = "stopall" /\ call[c].pc = "range"
  /\ call[c].todo = {}
  /\ call' = [call EXCEPT ![c] =
       [Idle EXCEPT !.op = "stopall", !.pc = "done", !.res = "ok"]]
  /\ UNCHANGED <<instances, inst, flow, hub, auth>>

\* ------------------------------------------------- the instance's tasks

Stopped(i) == inst[i].stopCh = "closed"

\* startTCP, lines 246-259: blocked in Accept on a closed listener, the loop
\* gets an error: it returns if the stop channel is closed (the select at
\* line 253 or the one at line 247), and calls Accept again if not.
AcceptClosed(i) ==
  /\ inst[i].accept = "run"
  /\ inst[i].tcpListener = "closed"
  /\ inst' = [inst EXCEPT ![i].accept = IF Stopped(i) THEN "done" ELSE "run"]
  /\ UNCHANGED <<instances, call, flow, hub, auth>>

\* startTCP, lines 246-259: Accept on the bound listener returns a transient
\* error; the select at line 253 returns if the stop channel is closed.
AcceptReturn(i) ==
  /\ inst[i].accept = "run"
  /\ inst[i].tcpListener = "bound"
  /\ inst' = [inst EXCEPT ![i].accept = IF Stopped(i) THEN "done" ELSE "run"]
  /\ UNCHANGED <<instances, call, flow, hub, auth>>

\* startUDP, lines 390-399: ReadFrom returns an error, within its one-second
\* deadline at the latest; the next round's select at line 391 returns if
\* the stop channel is closed.
UdpRound(i) ==
  /\ inst[i].udpLoop = "run"
  /\ inst[i].udpPc = "idle"
  /\ inst' = [inst EXCEPT ![i].udpLoop = IF Stopped(i) THEN "done" ELSE "run"]
  /\ UNCHANGED <<instances, call, flow, hub, auth>>

\* pushStatus, lines 510-513: the select takes the closed stop channel.
SamplerStop(i) ==
  /\ inst[i].sampler = "run"
  /\ Stopped(i)
  /\ inst' = [inst EXCEPT ![i].sampler = "done"]
  /\ UNCHANGED <<instances, call, flow, hub, auth>>

\* The rate estimator works in float64.  A rate is held here in fixed point,
\* in units of 1/Scale byte per second.
Scale == 100000

\* const alpha = 0.3, as the fraction AlphaNum / AlphaDen.
AlphaNum == 3

AlphaDen == 10

\* An estimator that takes the total for the tick's bytes (mutant of
\* InstantSpeed).
InstantSpeedTotal(current, last) == current

\* pushStatus, lines 556-557: the bytes since the last tick.
InstantSpeed(current, last) == current - last

\* An estimator that holds its rate over idle ticks (mutant of Ema).
EmaHold(smooth, instant) ==
  IF instant = 0 THEN smooth
  ELSE (AlphaNum * instant * Scale + (AlphaDen - AlphaNum) * smooth)
       \div AlphaDen

\* pushStatus, lines 560-565: the first data seeds the smoothed rate; after
\* that smoothed = alpha * instant + (1 - alpha) * smoothed.
Ema(smooth, instant) ==
  IF smooth = 0 /\ instant > 0
    THEN instant * Scale
    ELSE (AlphaNum * instant * Scale + (AlphaDen - AlphaNum) * smooth)
         \div AlphaDen

\* An estimator that keeps rates below 1 (mutant of Quantize).
QuantizeNever(smooth) == smooth

\* pushStatus, lines 574-579: a rate below 1 byte per second becomes 0.
Quantize(smooth) == IF smooth < Scale THEN 0 ELSE smooth

\* pushStatus, lines 590-591: int64(r.smoothSpeedIn).
ReportedSpeed(smooth) == smooth \div Scale

\* pushStatus, lines 514-594: the select takes a tick.  The sampler reads the
\* byte totals, updates the smoothed rates and publishes relay.traffic.
\* The relay.connections sample of the tick, lines 519-543, is taken in the
\* two steps SnapActive and SnapHistory before this one where a
\* specification observes that sample; elsewhere the tick is this step.
SamplerTick(i) ==
  /\ inst[i].sampler = "run"
  /\ inst[i].tick \in {"idle", "rate"}
  /\ LET currentBytesIn == inst[i].bytesIn
         currentBytesOut == inst[i].bytesOut
         smoothIn ==
           Quantize(Ema(inst[i].smoothSpeedIn,
                        InstantSpeed(currentBytesIn, inst[i].lastBytesIn)))
         smoothOut ==
           Quantize(Ema(inst[i].smoothSpeedOut,
                        InstantSpeed(currentBytesOut, inst[i].lastBytesOut)))
     IN inst' = [inst EXCEPT
          ![i].smoothSpeedIn = smoothIn,
          ![i].smoothSpeedOut = smoothOut,
          ![i].lastBytesIn = currentBytesIn,
          ![i].lastBytesOut = currentBytesOut,
          ![i].traffic = [bytes_in |-> currentBytesIn,
                          bytes_out |-> currentBytesOut,
                          bytes_in_speed |-> ReportedSpeed(smoothIn),
                          bytes_out_speed |-> ReportedSpeed(smoothOut),
                          connections |-> inst[i].connCount],
          ![i].tick = "idle"]
  /\ UNCHANGED <<instances, call, flow, hub, auth>>

\* ----------------------------------------------------- the specification

CallStep ==
  \E c \in Callers :
    \/ \E rule \in Rules : StartLoad(c, rule)
    \/ StartTCP(c)
    \/ StartUDP(c)
    \/ StartStore(c)
    \/ StartSpawn(c)
    \/ \E id \in RuleIds : StopLoad(c, id)
    \/ StopCloseCh(c)
    \/ StopCloseTCP(c)
    \/ StopCloseUDP(c)
    \/ StopDelete(c)
    \/ StopAllBegin(c)
    \/ \E k \in RuleIds : StopAllVisit(c, k)
    \/ StopAllEnd(c)

Next == CallStep

Spec == Init /\ [][Next]_vars

(***************************************************************************)
(* Part 2 (specification TaskSpec): one instance's life, with its tasks.   *)
(* The first call is the Start that makes the instance; the later calls    *)
(* are the Stop and StopAll calls that end it, concurrent with each other  *)
(* and with the Start.                                                     *)
(***************************************************************************)

LifeRules == {rule \in Rules : rule.id = 1}

LifeCallStep ==
  \E c \in Callers :
    \/ c = 1 /\ \E rule \in LifeRules : StartLoad(c, rule)
    \/ StartTCP(c)
    \/ StartUDP(c)
    \/ StartStore(c)
    \/ StartSpawn(c)
    \/ c > 1 /\ StopLoad(c, 1)
    \/ StopCloseCh(c)
    \/ StopCloseTCP(c)
    \/ StopCloseUDP(c)
    \/ StopDelete(c)
    \/ c > 1 /\ StopAllBegin(c)
    \/ \E k \in RuleIds : StopAllVisit(c, k)
    \/ StopAllEnd(c)

TaskStep ==
  \E i \in InstIds :
    \/ AcceptClosed(i)
    \/ AcceptReturn(i)
    \/ UdpRound(i)
    \/ SamplerStop(i)
    \/ SamplerTick(i)

TaskNext == LifeCallStep \/ TaskStep

TaskSpec == Init /\ [][TaskNext]_vars

\* What the scheduler and the sockets guarantee: a call that has begun runs
\* on; Accept on a closed listener returns; ReadFrom returns within its
\* deadline; a select with a closed stop channel takes it.  That a client
\* connects (AcceptReturn) is up to the client.
TaskFairness ==
  /\ \A c \in Callers :
       WF_vars(StartTCP(c) \/ StartUDP(c) \/ StartStore(c) \/ StartSpawn(c)
               \/ StopCloseCh(c) \/ StopCloseTCP(c) \/ StopCloseUDP(c)
               \/ StopDelete(c) \/ StopAllEnd(c)
               \/ \E k \in RuleIds : StopAllVisit(c, k))
  /\ \A i \in InstIds :
       /\ WF_vars(AcceptClosed(i))
       /\ WF_vars(UdpRound(i))
       /\ WF_vars(SamplerStop(i))

FairTaskSpec == TaskSpec /\ TaskFairness

(***************************************************************************)
(* Part 3 (specification FlowSpec): the data plane of one instance.  Call  *)
(* 1 is the Start that makes the instance and call 2 the Stop that ends    *)
(* it.  Clients connect and send, targets answer, and either end closes    *)
(* its connection when it likes.  In FlowSpec the payloads are empty: TCP  *)
(* peers send nothing and datagrams have length 0.  ByteSpec, further      *)
(* down, is the same data plane with payloads, and without the Stop.       *)
(***************************************************************************)

maxHistorySize == 100

\* Flows are numbered in the order they begin.
FreeFlow(f) ==
  /\ flow[f].kind = "none"
  /\ \A g \in FlowIds : g < f => flow[g].kind # "none"

\* A history that drops, when full, the entry before its oldest (mutant of
\* AddToHistory).
AddToHistorySkip(h, f) ==
  LET n == <<f>> \o h
  IN IF Len(n) > maxHistorySize
       THEN SubSeq(n, 1, maxHistorySize - 1) \o <<n[Len(n)]>> ELSE n

\* addToHistory, lines 365-376: prepend, and keep the first maxHistorySize.
AddToHistory(h, f) ==
  LET n == <<f>> \o h
  IN IF Len(n) > maxHistorySize THEN SubSeq(n, 1, maxHistorySize) ELSE n

\* The sum of a field over the flows of instance i among S.
RECURSIVE FlowSum(_, _, _)
FlowSum(S, i, field) ==
  IF S = {} THEN 0
  ELSE LET f == CHOOSE g \in S : TRUE
       IN (IF flow[f].inst = i THEN flow[f][field] ELSE 0)
          + FlowSum(S \ {f}, i, field)

\* Bytes on their way to the totals of instance i: read or received, and
\* not yet added.
InFlightIn(i) == inst[i].udpLen + FlowSum(FlowIds, i, "wlenIn")

InFlightOut(i) ==
  FlowSum(FlowIds, i, "wlenOut") + FlowSum(FlowIds, i, "plen")
  + FlowSum(FlowIds, i, "rlen")

\* A behaviour relays at most MaxBytes bytes per instance and direction.
RoomIn(i, n) == inst[i].bytesIn + InFlightIn(i) + n <= MaxBytes

RoomOut(i, n) == inst[i].bytesOut + InFlightOut(i) + n <= MaxBytes

\* An accounting that takes the bytes off the total (mutant of AddTotal).
AddTotalSub(total, n) == total - n

\* atomic.AddInt64 of n bytes to one of the instance's totals: lines 227,
\* 456 and 484.
AddTotal(total, n) == total + n

\* ------------------------------------------------------------ TCP flows

\* startTCP, lines 251-260: Accept returns a client's connection; the loop
\* spawns handleTCP for it and goes round to the select at line 247.
AcceptConn(i, f) ==
  /\ inst[i].accept = "run"
  /\ inst[i].tcpListener = "bound"
  /\ FreeFlow(f)
  /\ flow' = [flow EXCEPT ![f] =
       [NoFlow EXCEPT !.kind = "tcp", !.inst = i, !.pc = "dial",
                      !.client = "open"]]
  /\ inst' = [inst EXCEPT ![i].accept = IF Stopped(i) THEN "done" ELSE "run"]
  /\ UNCHANGED <<instances, call, hub, auth>>

\* A handler that returns from a failed dial and leaves the client's
\* connection open (mutant of DialFailed).
DialFailedOpen(r) == [r EXCEPT !.pc = "done"]

\* handleTCP, lines 269 and 273-276: the dial has failed; the handler logs
\* and returns, and the deferred client.Close() runs.
DialFailed(r) == [r EXCEPT !.client = "closed", !.pc = "done"]

\* handleTCP, lines 269-277: dial the target; if that fails, return, which
\* closes the client's connection.
TcpDial(f) ==
  /\ flow[f].kind = "tcp" /\ flow[f].pc = "dial"
  /\ \/ flow' = [flow EXCEPT ![f].remote = "open", ![f].pc = "store"]
     \/ flow' = [flow EXCEPT ![f] = DialFailed(@)]
  /\ UNCHANGED <<instances, inst, call, hub, auth>>

\* handleTCP, lines 280-298: the record is made, Active, and
\* r.connections.Store(connID, connInfo).
TcpStore(f) ==
  /\ flow[f].kind = "tcp" /\ flow[f].pc = "store"
  /\ inst' = [inst EXCEPT ![flow[f].inst].connections = @ \cup {f}]
  /\ flow' = [flow EXCEPT ![f].pc = "count", ![f].active = TRUE]
  /\ UNCHANGED <<instances, call, hub, auth>>

\* handleTCP, lines 299-340: atomic.AddInt64(&r.connCount, 1), the connect
\* log, and the two copiers spawned.
TcpCount(f) ==
  /\ flow[f].kind = "tcp" /\ flow[f].pc = "count"
  /\ inst' = [inst EXCEPT ![flow[f].inst].connCount = @ + 1]
  /\ flow' = [flow EXCEPT ![f].pc = "copy", ![f].cin = "run",
                          ![f].cout = "run",
                          ![f].log = Append(@, "connect")]
  /\ UNCHANGED <<instances, call, hub, auth>>

\* A copier that closes the whole of the opposite socket when its source
\* ends (mutant of CloseWriteRemote).
CloseRemote(r) == [r EXCEPT !.remoteShut = TRUE, !.remote = "closed"]

\* handleTCP, lines 319-321: tc.CloseWrite() on the target's socket.
CloseWriteRemote(r) == [r EXCEPT !.remoteShut = TRUE]

\* handleTCP, lines 336-338: tc.CloseWrite() on the client's socket.
CloseWriteClient(r) == [r EXCEPT !.clientShut = TRUE]

\* The copier client->target, lines 309-323: io.Copy returns when the read
\* from the client ends (the client has closed its end) or after an I/O
\* error; the copier closes the write side of the target's socket and
\* reports to the handler.
CopyInEnd(f) ==
  /\ flow[f].kind = "tcp" /\ flow[f].cin = "run"
  /\ flow[f].wIn = "idle"
  /\ flow[f].clientEOF \/ flow[f].errIn
  /\ flow' = [flow EXCEPT ![f] = [CloseWriteRemote(@) EXCEPT !.cin = "done"]]
  /\ UNCHANGED <<instances, inst, call, hub, auth>>

\* The copier target->client, lines 326-340: likewise for the target.
CopyOutEnd(f) ==
  /\ flow[f].kind = "tcp" /\ flow[f].cout = "run"
  /\ flow[f].wOut = "idle"
  /\ flow[f].remoteEOF \/ flow[f].errOut
  /\ flow' = [flow EXCEPT ![f] = [CloseWriteClient(@) EXCEPT !.cout = "done"]]
  /\ UNCHANGED <<instances, inst, call, hub, auth>>

\* The copier client->target, line 317: the read from the client's socket
\* returns an error (the connection was reset); io.Copy returns.
CopyInReadErr(f) ==
  /\ flow[f].kind = "tcp" /\ flow[f].cin = "run"
  /\ flow[f].wIn = "idle"
  /\ ~flow[f].clientEOF /\ ~flow[f].errIn
  /\ flow' = [flow EXCEPT ![f].errIn = TRUE]
  /\ UNCHANGED <<instances, inst, call, hub, auth>>

\* The copier target->client, line 334: likewise for the target's socket.
CopyOutReadErr(f) ==
  /\ flow[f].kind = "tcp" /\ flow[f].cout = "run"
  /\ flow[f].wOut = "idle"
  /\ ~flow[f].remoteEOF /\ ~flow[f].errOut
  /\ flow' = [flow EXCEPT ![f].errOut = TRUE]
  /\ UNCHANGED <<instances, inst, call, hub, auth>>

\* A writer that counts the bytes it was asked to write (mutant of
\* Counted).
CountedRequested(p, n) == p

\* countingWriter.Write, lines 224-227: of the p bytes handed to it, the n
\* bytes the underlying writer reports are counted.
Counted(p, n) == n

\* What the underlying writer can return for a write of p bytes: n of them
\* written, with or without an error.
WriteReturns(p, n, err) == p > 0 /\ n \in 0..p

\* io.Copy stops after a write that returned an error or fell short.
CopyStops(p, n, err) == err \/ n < p

\* The copier client->target, lines 317 and 224-226: io.Copy reads p bytes
\* the client has sent and hands them to countingWriter.Write; the write to
\* the target returns (n, err), and if n > 0 the flow-local counter is
\* increased.
CopyInWrite(f, p, n, err) ==
  /\ flow[f].kind = "tcp" /\ flow[f].cin = "run"
  /\ flow[f].wIn = "idle"
  /\ flow[f].client = "open"
  /\ ~flow[f].clientEOF /\ ~flow[f].errIn
  /\ WriteReturns(p, n, err)
  /\ RoomIn(flow[f].inst, Counted(p, n))
  /\ flow' = [flow EXCEPT
       ![f].sunkIn = @ + n,
       ![f].errIn = CopyStops(p, n, err),
       ![f].cntIn = IF n > 0 THEN @ + Counted(p, n) ELSE @,
       ![f].wlenIn = IF n > 0 THEN Counted(p, n) ELSE 0,
       ![f].wIn = IF n > 0 THEN "total" ELSE "idle"]
  /\ UNCHANGED <<instances, inst, call, hub, auth>>

\* countingWriter.Write, line 227: atomic.AddInt64(cw.total, n).
CopyInTotal(f) ==
  /\ flow[f].kind = "tcp" /\ flow[f].wIn = "total"
  /\ inst' = [inst EXCEPT ![flow[f].inst].bytesIn = AddTotal(@, flow[f].wlenIn)]
  /\ flow' = [flow EXCEPT ![f].wlenIn = 0, ![f].wIn = "record"]
  /\ UNCHANGED <<instances, call, hub, auth>>

\* countingWriter.Write, lines 229-235: the record's BytesIn is set to the
\* flow-local counter, and the write returns to io.Copy.
CopyInRecord(f) ==
  /\ flow[f].kind = "tcp" /\ flow[f].wIn = "record"
  /\ flow' = [flow EXCEPT ![f].recIn = flow[f].cntIn, ![f].wIn = "idle"]
  /\ UNCHANGED <<instances, inst, call, hub, auth>>

\* The copier target->client, lines 334 and 224-226.
CopyOutWrite(f, p, n, err) ==
  /\ flow[f].kind = "tcp" /\ flow[f].cout = "run"
  /\ flow[f].wOut = "idle"
  /\ flow[f].remote = "open"
  /\ ~flow[f].remoteEOF /\ ~flow[f].errOut
  /\ WriteReturns(p, n, err)
  /\ RoomOut(flow[f].inst, Counted(p, n))
  /\ flow' = [flow EXCEPT
       ![f].sunkOut = @ + n,
       ![f].errOut = CopyStops(p, n, err),
       ![f].cntOut = IF n > 0 THEN @ + Counted(p, n) ELSE @,
       ![f].wlenOut = IF n > 0 THEN Counted(p, n) ELSE 0,
       ![f].wOut = IF n > 0 THEN "total" ELSE "idle"]
  /\ UNCHANGED <<instances, inst, call, hub, auth>>

\* countingWriter.Write, line 227, for the copier target->client.
CopyOutTotal(f) ==
  /\ flow[f].kind = "tcp" /\ flow[f].wOut = "total"
  /\ inst' = [inst EXCEPT
       ![flow[f].inst].bytesOut = AddTotal(@, flow[f].wlenOut)]
  /\ flow' = [flow EXCEPT ![f].wlenOut = 0, ![f].wOut = "record"]
  /\ UNCHANGED <<instances, call, hub, auth>>

\* countingWriter.Write, lines 231-235: the record's BytesOut is set.
CopyOutRecord(f) ==
  /\ flow[f].kind = "tcp" /\ flow[f].wOut = "record"
  /\ flow' = [flow EXCEPT ![f].recOut = flow[f].cntOut, ![f].wOut = "idle"]
  /\ UNCHANGED <<instances, inst, call, hub, auth>>

\* A handler that leaves the record active (mutant of Finalize).
FinalizeActive(r) ==
  [r EXCEPT !.recIn = r.cntIn, !.recOut = r.cntOut, !.duration = "final"]

\* handleTCP, lines 347-353, and the response reader, lines 464-469: the
\* record gets its final fields: not Active, BytesIn and BytesOut from the
\* flow-local counters.
Finalize(r) ==
  [r EXCEPT !.active = FALSE, !.recIn = r.cntIn, !.recOut = r.cntOut,
            !.duration = "final"]

\* handleTCP, lines 343-355: both copiers have reported; the record gets its
\* final fields and r.connections.Delete(connID).
TcpDelete(f) ==
  /\ flow[f].kind = "tcp" /\ flow[f].pc = "copy"
  /\ flow[f].cin = "done" /\ flow[f].cout = "done"
  /\ inst' = [inst EXCEPT ![flow[f].inst].connections = @ \ {f}]
  /\ flow' = [flow EXCEPT ![f] = [Finalize(@) EXCEPT !.pc = "uncount"]]
  /\ UNCHANGED <<instances, call, hub, auth>>

\* handleTCP, line 356: atomic.AddInt64(&r.connCount, -1).
TcpUncount(f) ==
  /\ flow[f].kind = "tcp" /\ flow[f].pc = "uncount"
  /\ inst' = [inst EXCEPT ![flow[f].inst].connCount = @ - 1]
  /\ flow' = [flow EXCEPT ![f].pc = "hist"]
  /\ UNCHANGED <<instances, call, hub, auth>>

\* handleTCP, lines 357-362: addToHistory, SaveRelayStat with the flow-local
\* counters and the disconnect log; on return the deferred calls close both
\* sockets.
TcpHist(f) ==
  /\ flow[f].kind = "tcp" /\ flow[f].pc = "hist"
  /\ inst' = [inst EXCEPT ![flow[f].inst].history = AddToHistory(@, f)]
  /\ flow' = [flow EXCEPT ![f].pc = "done", ![f].client = "closed",
                          ![f].remote = "closed",
                          ![f].log = @ \o <<"stat", "disconnect">>,
                          ![f].statIn = flow[f].cntIn,
                          ![f].statOut = flow[f].cntOut]
  /\ UNCHANGED <<instances, call, hub, auth>>

\* The client closes its end of the connection.
ClientClose(f) ==
  /\ flow[f].kind = "tcp" /\ flow[f].client = "open"
  /\ ~flow[f].clientEOF
  /\ flow' = [flow EXCEPT ![f].clientEOF = TRUE]
  /\ UNCHANGED <<instances, inst, call, hub, auth>>

\* The target closes its end of the connection.
TargetClose(f) ==
  /\ flow[f].kind = "tcp" /\ flow[f].remote = "open"
  /\ ~flow[f].remoteEOF
  /\ flow' = [flow EXCEPT ![f].remoteEOF = TRUE]
  /\ UNCHANGED <<instances, inst, call, hub, auth>>

\* --------------------------------------------------------- UDP sessions

\* The receive loop goes round: the select at line 391.
NextRound(i) == IF Stopped(i) THEN "done" ELSE "run"

\* A session as made at lines 418-426, its target socket dialed.
NewSession(i, a) ==
  [NoFlow EXCEPT !.kind = "udp", !.inst = i, !.pc = "new",
                 !.remote = "open", !.addr = a]

\* startUDP, lines 396-426: ReadFrom returns a datagram of n bytes of client
\* a.  Under the mutex the loop looks the client up; for a new client it
\* dials the target (on failure it goes round) and enters the session in
\* its map.
UdpRecv(i, a, f, n) ==
  /\ inst[i].udpLoop = "run" /\ inst[i].udpPc = "idle"
  /\ inst[i].udpConn = "bound"
  /\ RoomIn(i, n)
  /\ IF inst[i].clients[a] # 0
       THEN /\ f = inst[i].clients[a]
            /\ inst' = [inst EXCEPT ![i].udpCur = f, ![i].udpPc = "write",
                                    ![i].udpLen = n]
            /\ UNCHANGED flow
       ELSE /\ FreeFlow(f)
            /\ \/ /\ flow' = [flow EXCEPT ![f] = NewSession(i, a)]
                  /\ inst' = [inst EXCEPT ![i].clients[a] = f,
                                          ![i].udpCur = f,
                                          ![i].udpPc = "store",
                                          ![i].udpLen = n]
               \/ /\ inst' = [inst EXCEPT ![i].udpLoop = NextRound(i)]
                  /\ UNCHANGED flow
  /\ UNCHANGED <<instances, call, hub, auth>>

\* startUDP, lines 428-440: the record is made, Active, and
\* r.connections.Store(connID, connInfo).
UdpStore(i) ==
  /\ inst[i].udpPc = "store"
  /\ inst' = [inst EXCEPT ![i].connections = @ \cup {inst[i].udpCur},
                          ![i].udpPc = "count"]
  /\ flow' = [flow EXCEPT ![inst[i].udpCur].active = TRUE]
  /\ UNCHANGED <<instances, call, hub, auth>>

\* startUDP, lines 441-479: atomic.AddInt64(&r.connCount, 1), the connect
\* log, the response reader spawned, the mutex released.
UdpCount(i) ==
  /\ inst[i].udpPc = "count"
  /\ inst' = [inst EXCEPT ![i].connCount = @ + 1, ![i].udpPc = "write"]
  /\ flow' = [flow EXCEPT ![inst[i].udpCur].pc = "read",
                          ![inst[i].udpCur].log = Append(@, "connect")]
  /\ UNCHANGED <<instances, call, hub, auth>>

\* An accounting that also keeps the session's record up to date (mutant of
\* SessionBytesIn).
SessionBytesInLive(r, n) ==
  [r EXCEPT !.cntIn = @ + n, !.recIn = r.cntIn + n]

\* startUDP, line 483: atomic.AddInt64(&client.bytesIn, n), on the udpClient.
SessionBytesIn(r, n) == [r EXCEPT !.cntIn = @ + n]

\* startUDP, lines 481-484: the datagram is written to the session's target
\* socket and its length added to the session's bytesIn and to the
\* instance's; the loop goes round.
UdpWrite(i) ==
  /\ inst[i].udpPc = "write"
  /\ flow' = [flow EXCEPT
       ![inst[i].udpCur] = SessionBytesIn(@, inst[i].udpLen)]
  /\ inst' = [inst EXCEPT ![i].udpPc = "idle", ![i].udpCur = 0,
                          ![i].udpLen = 0,
                          ![i].bytesIn = AddTotal(@, inst[i].udpLen),
                          ![i].udpLoop = NextRound(i)]
  /\ UNCHANGED <<instances, call, hub, auth>>

\* The target sends a datagram of n bytes to the session's socket.
TargetSend(f, n) ==
  /\ flow[f].kind = "udp" /\ flow[f].remote = "open"
  /\ flow[f].pending = 0
  /\ RoomOut(flow[f].inst, n)
  /\ flow' = [flow EXCEPT ![f].pending = 1, ![f].plen = n]
  /\ UNCHANGED <<instances, inst, call, hub, auth>>

\* The response reader, lines 449-453: Read returns a datagram.
SessData(f) ==
  /\ flow[f].kind = "udp" /\ flow[f].pc = "read"
  /\ flow[f].pending > 0
  /\ flow' = [flow EXCEPT ![f].pending = @ - 1, ![f].pc = "fwd",
                          ![f].rlen = flow[f].plen, ![f].plen = 0]
  /\ UNCHANGED <<instances, inst, call, hub, auth>>

\* The response reader, lines 454-456: WriteTo the client through the
\* listening socket (its error, if any, is dropped), the length added to
\* the session's bytesOut and to the instance's, and round again.
SessForward(f) ==
  /\ flow[f].kind = "udp" /\ flow[f].pc = "fwd"
  /\ flow' = [flow EXCEPT ![f].pc = "read", ![f].rlen = 0,
                          ![f].cntOut = @ + flow[f].rlen]
  /\ inst' = [inst EXCEPT
       ![flow[f].inst].bytesOut = AddTotal(@, flow[f].rlen)]
  /\ UNCHANGED <<instances, call, hub, auth>>

\* The response reader, lines 449-452: no datagram for 30 seconds; Read
\* returns the deadline error and the loop is left.
SessTimeout(f) ==
  /\ flow[f].kind = "udp" /\ flow[f].pc = "read"
  /\ flow[f].pending = 0
  /\ flow' = [flow EXCEPT ![f].pc = "cleanup"]
  /\ UNCHANGED <<instances, inst, call, hub, auth>>

\* A reader that leaves its session in the map (mutant of DeleteClient).
DeleteClientSkip(clients, a) == clients

\* The response reader, line 461: delete(clients, c.addr.String()).
DeleteClient(clients, a) == [clients EXCEPT ![a] = 0]

\* The response reader, lines 460-469: under the mutex, delete(clients,
\* key); then the record's final fields, BytesIn and BytesOut from the
\* session's counters.
SessCleanup(f) ==
  /\ flow[f].kind = "udp" /\ flow[f].pc = "cleanup"
  /\ inst[flow[f].inst].udpPc \notin {"store", "count"}
  /\ inst' = [inst EXCEPT
       ![flow[f].inst].clients = DeleteClient(@, flow[f].addr)]
  /\ flow' = [flow EXCEPT ![f] = [Finalize(@) EXCEPT !.pc = "delete"]]
  /\ UNCHANGED <<instances, call, hub, auth>>

\* The response reader, line 471: r.connections.Delete(c.connID).
SessDelete(f) ==
  /\ flow[f].kind = "udp" /\ flow[f].pc = "delete"
  /\ inst' = [inst EXCEPT ![flow[f].inst].connections = @ \ {f}]
  /\ flow' = [flow EXCEPT ![f].pc = "uncount"]
  /\ UNCHANGED <<instances, call, hub, auth>>

\* The response reader, line 472: atomic.AddInt64(&r.connCount, -1).
SessUncount(f) ==
  /\ flow[f].kind = "udp" /\ flow[f].pc = "uncount"
  /\ inst' = [inst EXCEPT ![flow[f].inst].connCount = @ - 1]
  /\ flow' = [flow EXCEPT ![f].pc = "hist"]
  /\ UNCHANGED <<instances, call, hub, auth>>

\* The response reader, lines 473-477: addToHistory, SaveRelayStat with the
\* session's counters as they are now, and the disconnect log; the task
\* ends.  Nothing closes c.remote.
SessHist(f) ==
  /\ flow[f].kind = "udp" /\ flow[f].pc = "hist"
  /\ inst' = [inst EXCEPT ![flow[f].inst].history = AddToHistory(@, f)]
  /\ flow' = [flow EXCEPT ![f].pc = "done",
                          ![f].log = @ \o <<"stat", "disconnect">>,
                          ![f].statIn = flow[f].cntIn,
                          ![f].statOut = flow[f].cntOut]
  /\ UNCHANGED <<instances, call, hub, auth>>

\* ------------------------------------------------- the flow specification

FlowRules == {rule \in Rules : rule.id = 1 /\ rule.protocol # "other"}

FlowCallStep ==
  \/ \E rule \in FlowRules : StartLoad(1, rule)
  \/ StartTCP(1)
  \/ StartUDP(1)
  \/ StartStore(1)
  \/ StartSpawn(1)
  \/ StopLoad(2, 1)
  \/ StopCloseCh(2)
  \/ StopCloseTCP(2)
  \/ StopCloseUDP(2)
  \/ StopDelete(2)

LoopStep(i) ==
  \/ AcceptClosed(i)
  \/ AcceptReturn(i)
  \/ \E f \in FlowIds : AcceptConn(i, f)
  \/ UdpRound(i)
  \/ \E a \in Addrs, f \in FlowIds : UdpRecv(i, a, f, 0)
  \/ UdpStore(i)
  \/ UdpCount(i)
  \/ UdpWrite(i)
  \/ SamplerStop(i)
  \/ SamplerTick(i)

HandlerStep(f) ==
  \/ TcpDial(f)
  \/ TcpStore(f)
  \/ TcpCount(f)
  \/ CopyInEnd(f)
  \/ CopyOutEnd(f)
  \/ TcpDelete(f)
  \/ TcpUncount(f)
  \/ TcpHist(f)

ReaderStep(f) ==
  \/ SessData(f)
  \/ SessForward(f)
  \/ SessTimeout(f)
  \/ SessCleanup(f)
  \/ SessDelete(f)
  \/ SessUncount(f)
  \/ SessHist(f)

PeerStep(f) ==
  \/ ClientClose(f)
  \/ TargetClose(f)
  \/ TargetSend(f, 0)

FlowNext ==
  \/ FlowCallStep
  \/ \E i \in InstIds : LoopStep(i)
  \/ \E f \in FlowIds : HandlerStep(f) \/ ReaderStep(f) \/ PeerStep(f)

FlowSpec == Init /\ [][FlowNext]_vars

\* What the scheduler, the sockets and their deadlines guarantee: a call
\* that has begun runs on, and so does every task that is not blocked: the
\* accept loop on a closed listener, the receive loop, the sampler once the
\* stop channel is closed, a handler, a copier whose source has reached its
\* end, a reader with a datagram to read or its deadline expired.  Nothing
\* is assumed of the peers: whether a client connects or sends, whether the
\* target answers, whether either of them ever closes its connection.
FlowFairness ==
  /\ WF_vars(StartTCP(1) \/ StartUDP(1) \/ StartStore(1) \/ StartSpawn(1))
  /\ WF_vars(StopCloseCh(2) \/ StopCloseTCP(2) \/ StopCloseUDP(2)
             \/ StopDelete(2))
  /\ WF_vars(AcceptClosed(1))
  /\ WF_vars(UdpRound(1) \/ UdpStore(1) \/ UdpCount(1) \/ UdpWrite(1))
  /\ WF_vars(SamplerStop(1))
  /\ \A f \in FlowIds :
       /\ WF_vars(TcpDial(f) \/ TcpStore(f) \/ TcpCount(f) \/ TcpDelete(f)
                  \/ TcpUncount(f) \/ TcpHist(f))
       /\ WF_vars(CopyInEnd(f))
       /\ WF_vars(CopyOutEnd(f))
       /\ WF_vars(ReaderStep(f))

FairFlowSpec == FlowSpec /\ FlowFairness

(***************************************************************************)
(* Part 4 (specification ByteSpec): byte accounting.  The instance of a    *)
(* "both" rule is started and relays payloads of up to MaxLen bytes,       *)
(* MaxBytes in all per direction.  SampleSpec adds the sampler's ticks,    *)
(* for the instance of a "tcp" or of a "udp" rule.                         *)
(***************************************************************************)

Lens == 0..MaxLen

ByteRules == {rule \in Rules : rule.id = 1 /\ rule.protocol = "both"}

ByteCallStep ==
  \/ \E rule \in ByteRules : StartLoad(1, rule)
  \/ StartTCP(1)
  \/ StartUDP(1)
  \/ StartStore(1)
  \/ StartSpawn(1)

ByteLoopStep(i) ==
  \/ AcceptReturn(i)
  \/ \E f \in FlowIds : AcceptConn(i, f)
  \/ UdpRound(i)
  \/ \E a \in Addrs, f \in FlowIds, n \in Lens : UdpRecv(i, a, f, n)
  \/ UdpStore(i)
  \/ UdpCount(i)
  \/ UdpWrite(i)

CopierStep(f) ==
  \/ \E n \in Lens : CopyInWrite(f, n, n, FALSE)
  \/ CopyInTotal(f)
  \/ CopyInRecord(f)
  \/ \E n \in Lens : CopyOutWrite(f, n, n, FALSE)
  \/ CopyOutTotal(f)
  \/ CopyOutRecord(f)

BytePeerStep(f) ==
  \/ ClientClose(f)
  \/ TargetClose(f)
  \/ \E n \in Lens : TargetSend(f, n)

ByteNext ==
  \/ ByteCallStep
  \/ \E i \in InstIds : ByteLoopStep(i)
  \/ \E f \in FlowIds :
       HandlerStep(f) \/ CopierStep(f) \/ ReaderStep(f) \/ BytePeerStep(f)

ByteSpec == Init /\ [][ByteNext]_vars

SampleRules ==
  {rule \in Rules : rule.id = 1 /\ rule.protocol \in {"tcp", "udp"}}

SampleCallStep ==
  \/ \E rule \in SampleRules : StartLoad(1, rule)
  \/ StartTCP(1)
  \/ StartUDP(1)
  \/ StartStore(1)
  \/ StartSpawn(1)

SampleNext ==
  \/ SampleCallStep
  \/ \E i \in InstIds : ByteLoopStep(i) \/ SamplerTick(i)
  \/ \E f \in FlowIds :
       HandlerStep(f) \/ CopierStep(f) \/ ReaderStep(f) \/ BytePeerStep(f)

SampleSpec == Init /\ [][SampleNext]_vars

(***************************************************************************)
(* Part 4b (specification CopySpec): the TCP flows of the instance of a    *)
(* "tcp" rule, with everything a socket can do to a copier: reads that     *)
(* fail, and writes that fall short or fail.  The clients connect one      *)
(* after the other.                                                        *)
(***************************************************************************)

\* The lengths io.Copy hands to a write.
Requests == 1..(MaxLen + 1)

CopyRules == {rule \in Rules : rule.id = 1 /\ rule.protocol = "tcp"}

CopyCallStep ==
  \/ \E rule \in CopyRules : StartLoad(1, rule)
  \/ StartTCP(1)
  \/ StartStore(1)
  \/ StartSpawn(1)

\* No handler is at work: the clients connect one after the other.
Quiet == \A g \in FlowIds : flow[g].pc \in {"none", "done"}

CopyLoopStep(i) ==
  \/ AcceptReturn(i)
  \/ Quiet /\ \E f \in FlowIds : AcceptConn(i, f)

SocketStep(f) ==
  \/ \E q \in Requests, n \in Lens \cup Requests, err \in BOOLEAN :
       CopyInWrite(f, q, n, err)
  \/ CopyInTotal(f)
  \/ CopyInRecord(f)
  \/ CopyInReadErr(f)
  \/ \E q \in Requests, n \in Lens \cup Requests, err \in BOOLEAN :
       CopyOutWrite(f, q, n, err)
  \/ CopyOutTotal(f)
  \/ CopyOutRecord(f)
  \/ CopyOutReadErr(f)
  \/ ClientClose(f)
  \/ TargetClose(f)

CopyNext ==
  \/ CopyCallStep
  \/ \E i \in InstIds : CopyLoopStep(i)
  \/ \E f \in FlowIds : HandlerStep(f) \/ SocketStep(f)

CopySpec == Init /\ [][CopyNext]_vars

\* The Start runs on, and so do the handler, a copier inside a write and a
\* copier whose io.Copy has returned.  Nothing is assumed of the peers or
\* of the sockets.
CopyFairness ==
  /\ WF_vars(StartTCP(1) \/ StartStore(1) \/ StartSpawn(1))
  /\ \A f \in FlowIds :
       /\ WF_vars(TcpDial(f) \/ TcpStore(f) \/ TcpCount(f) \/ TcpDelete(f)
                  \/ TcpUncount(f) \/ TcpHist(f))
       /\ WF_vars(CopyInTotal(f) \/ CopyInRecord(f) \/ CopyInEnd(f))
       /\ WF_vars(CopyOutTotal(f) \/ CopyOutRecord(f) \/ CopyOutEnd(f))

FairCopySpec == CopySpec /\ CopyFairness

(***************************************************************************)
(* Part 4c (specification StatusSpec): IsRunning and GetStatus, called     *)
(* while the instance of a "tcp" rule is started, relays one connection    *)
(* and is stopped.                                                         *)
(***************************************************************************)

\* IsRunning, lines 156-159: whether the map has an entry for the id.
IsRunning(c, id) ==
  /\ LowestIdle(c)
  /\ Nameable(id)
  /\ call' = [call EXCEPT ![c] =
       [Idle EXCEPT !.op = "isrunning", !.pc = "done", !.id = id,
                    !.res = "ok",
                    !.status = [NoStatus EXCEPT
                                  !.running = instances[id] # 0]]]
  /\ UNCHANGED <<instances, inst, flow, hub, auth>>

\* GetStatus, lines 163-166 and 172: m.instances.Load(id).  Without an entry
\* the call returns RelayStatus{Running: false}.
StatusLoad(c, id) ==
  /\ LowestIdle(c)
  /\ Nameable(id)
  /\ call' = [call EXCEPT ![c] =
       IF instances[id] = 0
         THEN [Idle EXCEPT !.op = "status", !.pc = "done", !.id = id,
                           !.res = "ok"]
         ELSE [Idle EXCEPT !.op = "status", !.pc = "conns", !.id = id,
                           !.inst = instances[id],
                           !.status = [NoStatus EXCEPT !.running = TRUE]]]
  /\ UNCHANGED <<instances, inst, flow, hub, auth>>

\* GetStatus, line 167: atomic.LoadInt64(&instance.connCount).
StatusConns(c) ==
  /\ call[c].op = "status" /\ call[c].pc = "conns"
  /\ call' = [call EXCEPT
       ![c].status.connections = inst[call[c].inst].connCount,
       ![c].pc = "in"]
  /\ UNCHANGED <<instances, inst, flow, hub, auth>>

\* A GetStatus that reports the total of the sampler's last tick (mutant of
\* LoadBytesIn).
LoadLastBytesIn(r) == r.lastBytesIn

\* GetStatus, line 168: atomic.LoadInt64(&instance.bytesIn).
LoadBytesIn(r) == r.bytesIn

StatusIn(c) ==
  /\ call[c].op = "status" /\ call[c].pc = "in"
  /\ call' = [call EXCEPT
       ![c].status.bytesIn = LoadBytesIn(inst[call[c].inst]),
       ![c].pc = "out"]
  /\ UNCHANGED <<instances, inst, flow, hub, auth>>

\* GetStatus, lines 169-170: atomic.LoadInt64(&instance.bytesOut), and
\* return.
StatusOut(c) ==
  /\ call[c].op = "status" /\ call[c].pc = "out"
  /\ call' = [call EXCEPT
       ![c] = [Returned(c, "ok") EXCEPT
                 !.status.bytesOut = inst[call[c].inst].bytesOut]]
  /\ UNCHANGED <<instances, inst, flow, hub, auth>>

StatusCallStep ==
  \E c \in Callers :
    \/ \E rule \in CopyRules : StartLoad(c, rule)
    \/ StartTCP(c)
    \/ StartStore(c)
    \/ StartSpawn(c)
    \/ \E id \in RuleIds : StopLoad(c, id)
    \/ StopCloseCh(c)
    \/ StopCloseTCP(c)
    \/ StopDelete(c)
    \/ \E id \in RuleIds : IsRunning(c, id)
    \/ \E id \in RuleIds : StatusLoad(c, id)
    \/ StatusConns(c)
    \/ StatusIn(c)
    \/ StatusOut(c)

\* The connection the instance relays.
TheFlow == CHOOSE f \in FlowIds : \A g \in FlowIds : f <= g

StatusNext ==
  \/ StatusCallStep
  \/ \E i \in InstIds : AcceptConn(i, TheFlow)
  \/ HandlerStep(TheFlow)
  \/ CopierStep(TheFlow)
  \/ ClientClose(TheFlow)
  \/ TargetClose(TheFlow)

StatusSpec == Init /\ [][StatusNext]_vars

(***************************************************************************)
(* Part 4d (specification ObserveSpec): the observers of the flow records. *)
(* The instance of a "tcp" or of a "udp" rule relays one flow, with empty  *)
(* payloads, while its sampler takes the relay.connections sample of each  *)
(* tick in two passes and callers run GetConnections.                      *)
(***************************************************************************)

\* The copy of a record an observer takes: the flow it is of, and Active.
CopyOf(f) == [id |-> f, active |-> flow[f].active]

\* The copies of the records of the flows in S, in the order of a Range.
RECURSIVE Copies(_)
Copies(S) ==
  IF S = {} THEN <<>>
  ELSE LET f == CHOOSE g \in S : \A h \in S : g <= h
       IN <<CopyOf(f)>> \o Copies(S \ {f})

\* pushStatus, lines 514-531: the select takes a tick, and the sampler
\* copies the records of the active flows.
SnapActive(i) ==
  /\ inst[i].sampler = "run" /\ inst[i].tick = "idle"
  /\ inst' = [inst EXCEPT ![i].conns = Copies(inst[i].connections),
                          ![i].tick = "hist"]
  /\ UNCHANGED <<instances, call, flow, hub, auth>>

\* pushStatus, lines 534-543: under the history's mutex the sampler appends
\* the copies of the history's records, and publishes relay.connections.
SnapHistory(i) ==
  /\ inst[i].sampler = "run" /\ inst[i].tick = "hist"
  /\ inst' = [inst EXCEPT
       ![i].conns = @ \o [j \in 1..Len(inst[i].history) |->
                            CopyOf(inst[i].history[j])],
       ![i].tick = "rate"]
  /\ UNCHANGED <<instances, call, flow, hub, auth>>

\* pushStatus, lines 546-593: the rest of the tick.
SnapRate(i) == inst[i].tick = "rate" /\ SamplerTick(i)

\* GetConnections, lines 198-199: m.instances.Load(id); without an entry the
\* call returns nil.
ConnsLoad(c, id) ==
  /\ LowestIdle(c)
  /\ Nameable(id)
  /\ call' = [call EXCEPT ![c] =
       IF instances[id] = 0
         THEN [Idle EXCEPT !.op = "conns", !.pc = "done", !.id = id,
                           !.res = "ok"]
         ELSE [Idle EXCEPT !.op = "conns", !.pc = "range", !.id = id,
                           !.inst = instances[id]]]
  /\ UNCHANGED <<instances, inst, flow, hub, auth>>

\* GetConnections, lines 201-205: the Range visits the record of flow f: it
\* assigns conn.Duration, on the record the map holds, and appends a copy.
ConnsVisit(c, f) ==
  /\ call[c].op = "conns" /\ call[c].pc = "range"
  /\ f \in inst[call[c].inst].connections \ call[c].visited
  /\ flow' = [flow EXCEPT ![f].duration = "live"]
  /\ call' = [call EXCEPT ![c].visited = @ \cup {f}]
  /\ UNCHANGED <<instances, inst, hub, auth>>

\* GetConnections, lines 205-207: the Range is over; return.
ConnsReturn(c) ==
  /\ call[c].op = "conns" /\ call[c].pc = "range"
  /\ inst[call[c].inst].connections \subseteq call[c].visited
  /\ call' = [call EXCEPT ![c] = Returned(c, "ok")]
  /\ UNCHANGED <<instances, inst, flow, hub, auth>>

ObserveCallStep ==
  \E c \in Callers :
    \/ \E rule \in SampleRules : StartLoad(c, rule)
    \/ StartTCP(c)
    \/ StartUDP(c)
    \/ StartStore(c)
    \/ StartSpawn(c)
    \/ \E id \in RuleIds : ConnsLoad(c, id)
    \/ \E f \in FlowIds : ConnsVisit(c, f)
    \/ ConnsReturn(c)

ObserveLoopStep(i) ==
  \/ AcceptConn(i, TheFlow)
  \/ \E a \in Addrs : UdpRecv(i, a, TheFlow, 0)
  \/ UdpStore(i)
  \/ UdpCount(i)
  \/ UdpWrite(i)
  \/ SnapActive(i)
  \/ SnapHistory(i)
  \/ SnapRate(i)

ObserveNext ==
  \/ ObserveCallStep
  \/ \E i \in InstIds : ObserveLoopStep(i)
  \/ HandlerStep(TheFlow)
  \/ ReaderStep(TheFlow)
  \/ PeerStep(TheFlow)

ObserveSpec == Init /\ [][ObserveNext]_vars

(***************************************************************************)
(* Part 5 (specification HistSpec): the history of one instance over the   *)
(* ends of MaxInserts flows.  addToHistory runs under historyMu, so the    *)
(* flows that end concurrently insert one after the other; the records are *)
(* numbered in the order of their insertion.                               *)
(***************************************************************************)

HistRule == [id |-> 1, src |-> 1, protocol |-> "tcp"]

HistInit ==
  /\ instances = [NewRelayManager EXCEPT ![1] = 1]
  /\ inst = [i \in InstIds |->
              IF i = 1 THEN NewInstance(HistRule) ELSE FreeSlot]
  /\ call = [c \in Callers |-> Idle]
  /\ flow = [f \in FlowIds |-> NoFlow]
  /\ hub = NewWSHub
  /\ auth = NewAuth

\* The number of records inserted so far: the number of the newest.
Inserted(h) == IF h = <<>> THEN 0 ELSE Head(h)

\* handleTCP, line 357, and the response reader, line 473: a flow that has
\* ended appends its record.
FlowEnds(i) ==
  /\ inst[i].alloc
  /\ Inserted(inst[i].history) < MaxInserts
  /\ inst' = [inst EXCEPT
       ![i].history = AddToHistory(@, Inserted(inst[i].history) + 1)]
  /\ UNCHANGED <<instances, call, flow, hub, auth>>

HistNext == \E i \in InstIds : FlowEnds(i)

HistSpec == HistInit /\ [][HistNext]_vars

(***************************************************************************)
(* Part 6 (specification RateSpec): the rate estimator.  The sampler of a  *)
(* running instance ticks while the data path adds bursts of BurstLen      *)
(* bytes to the totals, MaxBursts of them per direction.                   *)
(***************************************************************************)

RateInit ==
  /\ instances = [NewRelayManager EXCEPT ![1] = 1]
  /\ inst = [i \in InstIds |->
              IF i = 1 THEN [NewInstance(HistRule) EXCEPT !.sampler = "run"]
              ELSE FreeSlot]
  /\ call = [c \in Callers |-> Idle]
  /\ flow = [f \in FlowIds |-> NoFlow]
  /\ hub = NewWSHub
  /\ auth = NewAuth

\* The data path adds a burst to the inbound total (lines 227, 484).
BurstIn(i) ==
  /\ inst[i].alloc
  /\ inst[i].bytesIn + BurstLen <= MaxBursts * BurstLen
  /\ inst' = [inst EXCEPT ![i].bytesIn = AddTotal(@, BurstLen)]
  /\ UNCHANGED <<instances, call, flow, hub, auth>>

\* The data path adds a burst to the outbound total (lines 227, 456).
BurstOut(i) ==
  /\ inst[i].alloc
  /\ inst[i].bytesOut + BurstLen <= MaxBursts * BurstLen
  /\ inst' = [inst EXCEPT ![i].bytesOut = AddTotal(@, BurstLen)]
  /\ UNCHANGED <<instances, call, flow, hub, auth>>

RateNext == \E i \in InstIds : BurstIn(i) \/ BurstOut(i) \/ SamplerTick(i)

RateSpec == RateInit /\ [][RateNext]_vars

(***************************************************************************)
(* Part 7 (specifications FilterSpec and HubSpec): the telemetry hub.      *)
(* Subscribers attach, subscribe, drain their inboxes or stall, and leave; *)
(* the publisher calls BroadcastToRelay for one sample after the other.    *)
(* Nothing sends to the hub's broadcast channel, so that case of WSHub.Run *)
(* never runs.                                                             *)
(*                                                                         *)
(* FilterSpec follows the subscriptions: clients subscribe and unsubscribe *)
(* at will and samples of both kinds are published for every relay, while  *)
(* the connections stay up and the clients keep up.  HubSpec follows the   *)
(* inboxes and the connections: a client subscribes once, to everything,   *)
(* the samples are one relay's traffic samples, and writers stall, fail    *)
(* and readers leave at any moment.                                        *)
(***************************************************************************)

\* h.mu is free for a writer: no BroadcastToRelay holds the read lock.
NoReader == hub.pub.pc # "loop"

\* handleWS, lines 747-757, and Run, lines 51-54: a client is made, handed
\* to the register channel and entered in h.clients; its pumps start.
Register(s) ==
  /\ hub.sub[s].state = "none"
  /\ \A t \in Subs : t < s => hub.sub[t].state # "none"
  /\ NoReader
  /\ hub' = [hub EXCEPT !.clients = @ \cup {s},
                        !.sub[s].state = "live",
                        !.sub[s].writer = "run"]
  /\ UNCHANGED <<instances, inst, call, flow, auth>>

\* A subscribe that replaces the topic set by the topics of the message
\* (mutant of Subscribed).
SubscribedOnly(c, T, r) == [c EXCEPT !.topics = T, !.relayID = r]

\* readPump, lines 181-187: c.topics[topic] = true for each topic of the
\* message, and c.relayID = req.RelayID, which is empty if the message has
\* no relay_id.
Subscribed(c, T, r) == [c EXCEPT !.topics = @ \cup T, !.relayID = r]

\* readPump, lines 181-187: a subscribe message adds topics and sets the
\* relay filter.
Subscribe(s, T, r) ==
  /\ hub.sub[s].state = "live"
  /\ hub' = [hub EXCEPT !.sub[s] = Subscribed(@, T, r)]
  /\ UNCHANGED <<instances, inst, call, flow, auth>>

\* readPump, lines 188-193: an unsubscribe message removes topics.
Unsubscribe(s, T) ==
  /\ hub.sub[s].state = "live"
  /\ hub' = [hub EXCEPT !.sub[s].topics = @ \ T]
  /\ UNCHANGED <<instances, inst, call, flow, auth>>

\* readPump, lines 145-148 and 158-169: ReadMessage fails (the peer has left,
\* or writePump has closed the connection); readPump goes to hand the
\* client to the unregister channel.
ReadFails(s) ==
  /\ hub.sub[s].state = "live"
  /\ hub' = [hub EXCEPT !.sub[s].state = "unreg"]
  /\ UNCHANGED <<instances, inst, call, flow, auth>>

\* A Run that closes the inbox and leaves the client in the set (mutant of
\* DropClient).
DropClientKeep(clients, s) == clients

\* Run, line 59: delete(h.clients, client).
DropClient(clients, s) == clients \ {s}

\* Run, lines 56-62: the client is taken from the unregister channel; if it
\* is in h.clients it is deleted and its inbox closed.
Unregister(s) ==
  /\ hub.sub[s].state = "unreg"
  /\ NoReader
  /\ hub' = [hub EXCEPT !.clients = DropClient(@, s),
                        !.sub[s].state = "gone",
                        !.sub[s].closed = (s \in hub.clients) \/ @]
  /\ UNCHANGED <<instances, inst, call, flow, auth>>

\* writePump, lines 208-223: a sample is taken from the inbox and written to
\* the connection.
WriterSend(s) ==
  /\ hub.sub[s].writer = "run"
  /\ hub.sub[s].send # <<>>
  /\ hub' = [hub EXCEPT !.sub[s].send = Tail(@)]
  /\ UNCHANGED <<instances, inst, call, flow, auth>>

\* writePump, lines 208-213: the inbox is closed and empty; writePump sends
\* the close message and ends.
WriterClosed(s) ==
  /\ hub.sub[s].writer = "run"
  /\ hub.sub[s].send = <<>> /\ hub.sub[s].closed
  /\ hub' = [hub EXCEPT !.sub[s].writer = "done"]
  /\ UNCHANGED <<instances, inst, call, flow, auth>>

\* writePump, lines 215-229: a write to the connection fails, at the latest
\* when its 10 s deadline expires; writePump ends and closes the connection.
WriterFails(s) ==
  /\ hub.sub[s].writer = "run"
  /\ hub' = [hub EXCEPT !.sub[s].writer = "done"]
  /\ UNCHANGED <<instances, inst, call, flow, auth>>

\* BroadcastToRelay, lines 130-131 and 134: the client is subscribed to the
\* sample's type and its relay filter is empty or names the sample's relay.
MatchesTopicOnly(c, relayID, msgType) ==
  msgType \in c.topics

Matches(c, relayID, msgType) ==
  /\ msgType \in c.topics
  /\ c.relayID = 0 \/ c.relayID = relayID

\* BroadcastToRelay, line 136: the send puts the sample at the back of the
\* client's inbox.
EnqueueFront(q, m) == <<m>> \o q

Enqueue(q, m) == Append(q, m)

\* BroadcastToRelay, lines 135-138: the select has a default case, so the
\* visit of a client goes on whether or not its inbox has room.
SelectWaits(q) == Len(q) < InboxCap

SelectReady(q) == TRUE

\* BroadcastToRelay, lines 119-128: the sample is encoded, the read lock
\* taken and the range over h.clients begun.  Samples are numbered in the
\* order the sampler emits them.
PubBegin(r, t) ==
  /\ hub.pub.pc = "idle"
  /\ hub.pub.seq < MaxSamples
  /\ hub' = [hub EXCEPT !.pub = [pc |-> "loop", seq |-> hub.pub.seq + 1,
                                 relay |-> r, topic |-> t,
                                 todo |-> hub.clients]]
  /\ UNCHANGED <<instances, inst, call, flow, auth>>

\* BroadcastToRelay, lines 128-140, one client of the range: a matching
\* client gets the sample if its inbox has room and loses it otherwise; a
\* send on a closed inbox panics.
PubVisit(s) ==
  /\ hub.pub.pc = "loop"
  /\ s \in hub.pub.todo
  /\ SelectReady(hub.sub[s].send)
  /\ LET c == hub.sub[s]
         p == hub.pub
     IN  hub' =
           IF ~Matches(c, p.relay, p.topic)
           THEN [hub EXCEPT !.pub.todo = @ \ {s}]
           ELSE IF c.closed
           THEN [hub EXCEPT !.pub.pc = "panic"]
           ELSE IF Len(c.send) < InboxCap
           THEN [hub EXCEPT !.pub.todo = @ \ {s},
                            !.sub[s].send = Enqueue(@, p.seq)]
           ELSE [hub EXCEPT !.pub.todo = @ \ {s},
                            !.sub[s].dropped = TRUE]
  /\ UNCHANGED <<instances, inst, call, flow, auth>>

\* BroadcastToRelay, lines 126 and 141: the range is over, the read lock is
\* released and the call returns.
PubEnd ==
  /\ hub.pub.pc = "loop"
  /\ hub.pub.todo = {}
  /\ hub' = [hub EXCEPT !.pub.pc = "idle"]
  /\ UNCHANGED <<instances, inst, call, flow, auth>>

\* The samplers publish the two kinds of sample for the relays, no faster
\* than the clients read.
FilterPubStep ==
  \/ /\ \A s \in Subs : hub.sub[s].send = <<>>
     /\ \E r \in RuleIds, t \in Topics : PubBegin(r, t)
  \/ \E s \in Subs : PubVisit(s)
  \/ PubEnd

\* Clients whose connections stay up: they subscribe, unsubscribe and read
\* what they are sent.
FilterClientStep ==
  \/ \E s \in Subs : Register(s)
  \/ \E s \in Subs, t \in Topics, r \in RelayFilters : Subscribe(s, {t}, r)
  \/ \E s \in Subs, t \in Topics : Unsubscribe(s, {t})
  \/ \E s \in Subs : WriterSend(s)

FilterNext == FilterPubStep \/ FilterClientStep

FilterSpec == Init /\ [][FilterNext]_vars

\* The relay whose sampler publishes in HubSpec.
PubRelay == CHOOSE r \in RuleIds : \A q \in RuleIds : r <= q

\* readPump, lines 181-187: the client's first message subscribes it to
\* every topic, for all relays.
SubscribeAll(s) ==
  /\ hub.sub[s].topics = {}
  /\ Subscribe(s, Topics, 0)

\* One sampler publishes its traffic samples.
PubStep ==
  \/ PubBegin(PubRelay, "relay.traffic")
  \/ \E s \in Subs : PubVisit(s)
  \/ PubEnd

\* A client subscribes to everything as soon as it is attached; then its
\* writer drains the inbox or not, and either pump may end at any moment.
ClientStep ==
  \/ \E s \in Subs : Register(s)
  \/ \E s \in Subs : SubscribeAll(s)
  \/ \E s \in Subs : ReadFails(s)
  \/ \E s \in Subs : Unregister(s)
  \/ \E s \in Subs : WriterSend(s)
  \/ \E s \in Subs : WriterClosed(s)
  \/ \E s \in Subs : WriterFails(s)

HubNext == PubStep \/ ClientStep

HubSpec == Init /\ [][HubNext]_vars

\* The publisher is a running goroutine: it takes its next step when it
\* can.  Nothing is assumed of the subscribers.
HubFairness == WF_vars(PubStep)

FairHubSpec == HubSpec /\ HubFairness

(***************************************************************************)
(* Part 7.  The login sessions (package model, session.go): the sessions   *)
(* table behind sessionCache, a sync.Map of the valid sessions, and        *)
(* invalidTokens, a sync.Map of the tokens found invalid.  A call is a     *)
(* sequence of operations on the table and on the two maps, each of them   *)
(* atomic; the calls of concurrent requests interleave.                    *)
(* CleanExpiredSessions (lines 108-133) is left out: it removes expired    *)
(* entries and rows only, and every reader treats those as absent.         *)
(***************************************************************************)

\* The table outlives the process: a server that starts finds the rows of
\* the logins made before, and both caches empty.
RowsOf(S) == [t \in Tokens |-> IF t \in S THEN "live" ELSE "none"]

AuthInit ==
  /\ instances = NewRelayManager
  /\ inst = [i \in InstIds |-> FreeSlot]
  /\ call = [c \in Callers |-> Idle]
  /\ flow = [f \in FlowIds |-> NoFlow]
  /\ hub = NewWSHub
  /\ \E S \in SUBSET Tokens :
       auth = [NewAuth EXCEPT !.sessions = RowsOf(S), !.issued = S]

SessionAt(c, op, pc) == call[c].op = op /\ call[c].pc = pc

SessionGoto(c, pc) == [call EXCEPT ![c].pc = pc]

SessionReturn(c, res) == [call EXCEPT ![c].pc = "done", ![c].res = res]

\* The DeleteSession and DeleteAllSessions calls that have returned.
Revoked ==
  {d \in Callers : call[d].op \in {"delete", "deleteall"}
                   /\ call[d].pc = "done"}

\* CreateSession(token, ttl) is called (handler.go line 208, on login).
CreateSession(c, t) ==
  /\ LowestIdle(c)
  /\ call' = [call EXCEPT ![c] =
       [Idle EXCEPT !.op = "create", !.pc = "insert", !.id = t]]
  /\ auth' = [auth EXCEPT !.issued = @ \cup {t},
                          !.scope = [d \in Callers |-> @[d] \ {t}]]
  /\ UNCHANGED <<instances, inst, flow, hub>>

\* CreateSession, lines 26-31: INSERT INTO sessions.  With a row of the
\* token in the table, the table's definition decides between a constraint
\* error and a second row; either may happen here.
CreateInsert(c) ==
  /\ SessionAt(c, "create", "insert")
  /\ \/ /\ auth' = [auth EXCEPT !.sessions[call[c].id] = "live"]
        /\ call' = SessionGoto(c, "store")
     \/ /\ auth.sessions[call[c].id] # "none"
        /\ call' = SessionReturn(c, "err")
        /\ UNCHANGED auth
  /\ UNCHANGED <<instances, inst, flow, hub>>

\* CreateSession, lines 33-37: sessionCache.Store.
CreateStore(c) ==
  /\ SessionAt(c, "create", "store")
  /\ auth' = [auth EXCEPT !.sessionCache[call[c].id] = "live"]
  /\ call' = SessionGoto(c, "unlist")
  /\ UNCHANGED <<instances, inst, flow, hub>>

\* CreateSession, lines 39-40: invalidTokens.Delete, return nil.
CreateUnlist(c) ==
  /\ SessionAt(c, "create", "unlist")
  /\ auth' = [auth EXCEPT !.invalidTokens[call[c].id] = "none"]
  /\ call' = SessionReturn(c, "ok")
  /\ UNCHANGED <<instances, inst, flow, hub>>

\* GetSession(token) is called (handler.go lines 95, 361, 734: every
\* authenticated request).
GetSession(c, t) ==
  /\ LowestIdle(c)
  /\ call' = [call EXCEPT ![c] =
       [Idle EXCEPT !.op = "get", !.pc = "invalid", !.id = t]]
  /\ auth' = [auth EXCEPT !.after[c] = Revoked]
  /\ UNCHANGED <<instances, inst, flow, hub>>

\* GetSession, lines 47-53: invalidTokens.Load; an entry not yet expired
\* ends the call with ErrSessionNotFound.
GetLoadInvalid(c) ==
  /\ SessionAt(c, "get", "invalid")
  /\ call' = CASE auth.invalidTokens[call[c].id] = "live"
                    -> SessionReturn(c, "err")
               [] auth.invalidTokens[call[c].id] = "expired"
                    -> SessionGoto(c, "unlist")
               [] OTHER -> SessionGoto(c, "cache")
  /\ UNCHANGED <<instances, inst, flow, hub, auth>>

\* GetSession, line 55: invalidTokens.Delete of the entry found expired.
GetDeleteInvalid(c) ==
  /\ SessionAt(c, "get", "unlist")
  /\ auth' = [auth EXCEPT !.invalidTokens[call[c].id] = "none"]
  /\ call' = SessionGoto(c, "cache")
  /\ UNCHANGED <<instances, inst, flow, hub>>

\* GetSession, lines 59-63: sessionCache.Load; a session not yet expired is
\* returned.
GetLoadCache(c) ==
  /\ SessionAt(c, "get", "cache")
  /\ call' = CASE auth.sessionCache[call[c].id] = "live"
                    -> SessionReturn(c, "ok")
               [] auth.sessionCache[call[c].id] = "expired"
                    -> SessionGoto(c, "evict")
               [] OTHER -> SessionGoto(c, "query")
  /\ UNCHANGED <<instances, inst, flow, hub, auth>>

\* GetSession, line 65: sessionCache.Delete of the session found expired.
GetDeleteCache(c) ==
  /\ SessionAt(c, "get", "evict")
  /\ auth' = [auth EXCEPT !.sessionCache[call[c].id] = "none"]
  /\ call' = SessionGoto(c, "query")
  /\ UNCHANGED <<instances, inst, flow, hub>>

\* GetSession, lines 69-74: SELECT ... WHERE token = ? AND expires_at > ?.
GetQuery(c) ==
  /\ SessionAt(c, "get", "query")
  /\ call' = IF auth.sessions[call[c].id] = "live"
             THEN SessionGoto(c, "store")
             ELSE SessionGoto(c, "list")
  /\ UNCHANGED <<instances, inst, flow, hub, auth>>

\* GetSession, lines 75-78: no row; invalidTokens.Store, ErrSessionNotFound.
GetStoreInvalid(c) ==
  /\ SessionAt(c, "get", "list")
  /\ auth' = [auth EXCEPT !.invalidTokens[call[c].id] = "live"]
  /\ call' = SessionReturn(c, "err")
  /\ UNCHANGED <<instances, inst, flow, hub>>

\* GetSession, lines 81-82: sessionCache.Store of the row that was read,
\* and the session is returned.  At "stale" the row read has expired since.
GetStoreCache(c) ==
  /\ call[c].op = "get" /\ call[c].pc \in {"store", "stale"}
  /\ auth' = [auth EXCEPT !.sessionCache[call[c].id] =
                IF call[c].pc = "store" THEN "live" ELSE "expired"]
  /\ call' = SessionReturn(c, "ok")
  /\ UNCHANGED <<instances, inst, flow, hub>>

\* The tokens a CreateSession call is in progress with.
Creating ==
  {call[d].id : d \in {e \in Callers : call[e].op = "create"
                                       /\ call[e].pc # "done"}}

\* DeleteSession(token) is called (handler.go line 216, on logout).
DeleteSession(c, t) ==
  /\ LowestIdle(c)
  /\ call' = [call EXCEPT ![c] =
       [Idle EXCEPT !.op = "delete", !.pc = "evict", !.id = t]]
  /\ auth' = [auth EXCEPT !.scope[c] = {t} \ Creating]
  /\ UNCHANGED <<instances, inst, flow, hub>>

\* DeleteSession, line 88: sessionCache.Delete.
DeleteEvict(c) ==
  /\ SessionAt(c, "delete", "evict")
  /\ auth' = [auth EXCEPT !.sessionCache[call[c].id] = "none"]
  /\ call' = SessionGoto(c, "list")
  /\ UNCHANGED <<instances, inst, flow, hub>>

\* DeleteSession, line 90: invalidTokens.Store, for five minutes.
DeleteList(c) ==
  /\ SessionAt(c, "delete", "list")
  /\ auth' = [auth EXCEPT !.invalidTokens[call[c].id] = "live"]
  /\ call' = SessionGoto(c, "exec")
  /\ UNCHANGED <<instances, inst, flow, hub>>

\* DeleteSession, lines 92-93: DELETE FROM sessions WHERE token = ?.
DeleteExec(c) ==
  /\ SessionAt(c, "delete", "exec")
  /\ auth' = [auth EXCEPT !.sessions[call[c].id] = "none"]
  /\ call' = SessionReturn(c, "ok")
  /\ UNCHANGED <<instances, inst, flow, hub>>

Cached == {t \in Tokens : auth.sessionCache[t] # "none"}

\* DeleteAllSessions is called (handler.go lines 292 and 329, after the
\* password was changed or reset); line 98: sessionCache.Range begins.
\* Every key present for the whole of the Range is visited.
DeleteAllSessions(c) ==
  /\ LowestIdle(c)
  /\ call' = [call EXCEPT ![c] =
       [Idle EXCEPT !.op = "deleteall", !.pc = "range", !.todo = Cached]]
  /\ auth' = [auth EXCEPT !.scope[c] = auth.issued]
  /\ UNCHANGED <<instances, inst, flow, hub>>

\* DeleteAllSessions, lines 98-101: the Range visits a key it has not
\* visited (one present at the start, or stored since) and deletes it.
DeleteAllVisit(c, k) ==
  /\ SessionAt(c, "deleteall", "range")
  /\ k \notin call[c].visited
  /\ k \in call[c].todo \cup Cached
  /\ auth' = [auth EXCEPT !.sessionCache[k] = "none"]
  /\ call' = [call EXCEPT ![c].todo = @ \ {k}, ![c].visited = @ \cup {k}]
  /\ UNCHANGED <<instances, inst, flow, hub>>

\* DeleteAllSessions, line 101: the Range ends once it visited every key
\* that was present throughout.
DeleteAllRanged(c) ==
  /\ SessionAt(c, "deleteall", "range")
  /\ call[c].todo = {}
  /\ call' = SessionGoto(c, "exec")
  /\ UNCHANGED <<instances, inst, flow, hub, auth>>

\* DeleteAllSessions, lines 103-104: DELETE FROM sessions.
DeleteAllExec(c) ==
  /\ SessionAt(c, "deleteall", "exec")
  /\ auth' = [auth EXCEPT !.sessions = NoEntries]
  /\ call' = SessionReturn(c, "ok")
  /\ UNCHANGED <<instances, inst, flow, hub>>

\* invalidTokenTTL (line 19) passes: the token's entry has expired.
InvalidTokenExpires(t) ==
  /\ auth.invalidTokens[t] = "live"
  /\ auth' = [auth EXCEPT !.invalidTokens[t] = "expired"]
  /\ UNCHANGED <<instances, inst, call, flow, hub>>

Aged(e) == IF e = "live" THEN "expired" ELSE e

\* sessionTTL (handler.go line 38) passes: the token's session has
\* expired, in the table, in the cache and in the hands of a GetSession.
SessionExpires(t) ==
  /\ "live" \in {auth.sessions[t], auth.sessionCache[t]}
  /\ auth' = [auth EXCEPT !.sessions[t] = Aged(@),
                          !.sessionCache[t] = Aged(@)]
  /\ call' = [c \in Callers |->
       IF call[c].op = "get" /\ call[c].pc = "store" /\ call[c].id = t
       THEN [call[c] EXCEPT !.pc = "stale"] ELSE call[c]]
  /\ UNCHANGED <<instances, inst, flow, hub>>

SessionCallStep ==
  \E c \in Callers :
    \/ \E t \in Tokens : CreateSession(c, t)
    \/ CreateInsert(c)
    \/ CreateStore(c)
    \/ CreateUnlist(c)
    \/ \E t \in Tokens : GetSession(c, t)
    \/ GetLoadInvalid(c)
    \/ GetDeleteInvalid(c)
    \/ GetLoadCache(c)
    \/ GetDeleteCache(c)
    \/ GetQuery(c)
    \/ GetStoreInvalid(c)
    \/ GetStoreCache(c)
    \/ \E t \in Tokens : DeleteSession(c, t)
    \/ DeleteEvict(c)
    \/ DeleteList(c)
    \/ DeleteExec(c)
    \/ DeleteAllSessions(c)
    \/ \E k \in Tokens : DeleteAllVisit(c, k)
    \/ DeleteAllRanged(c)
    \/ DeleteAllExec(c)

SessionTimeStep ==
  \E t \in Tokens : InvalidTokenExpires(t) \/ SessionExpires(t)

SessionNext == SessionCallStep \/ SessionTimeStep

SessionSpec == AuthInit /\ [][SessionNext]_vars

(***************************************************************************)
(* Properties of the manager.                                              *)
(***************************************************************************)

Registered(i) == inst[i].alloc /\ instances[inst[i].rule.id] = i

\* An instance exists while it has not been told to stop and is registered,
\* holds a bound socket or has its sampler running.
Exists(i) ==
  /\ inst[i].alloc
  /\ ~Stopped(i)
  /\ \/ Registered(i)
     \/ inst[i].tcpListener = "bound"
     \/ inst[i].udpConn = "bound"
     \/ inst[i].sampler = "run"

\* C1: under any interleaving of Start, Stop and StopAll calls, no two
\* instances of one rule id exist at the same moment.
C1_OneInstancePerId ==
  \A i, j \in InstIds :
    (i # j /\ Exists(i) /\ Exists(j)) => inst[i].rule.id # inst[j].rule.id

\* C2: a Start that finds its rule id registered returns AlreadyRunning at
\* once and changes neither the map nor any instance.
C2_StartRejectsRunning ==
  [][\A c \in Callers :
       (call[c].op = "idle" /\ call'[c].op = "start"
        /\ instances[call'[c].id] # 0)
       => /\ call'[c].pc = "done"
          /\ call'[c].res = "AlreadyRunning"
          /\ call'[c].inst = 0
          /\ UNCHANGED <<instances, inst, flow, hub>>]_vars

\* A Start was rejected while the instance it met is registered and running.
C2_Witness ==
  \E c \in Callers :
    /\ call[c].op = "start" /\ call[c].res = "AlreadyRunning"
    /\ instances[call[c].id] # 0
    /\ inst[instances[call[c].id]].sampler = "run"

BindFailed(c) ==
  /\ call[c].op = "start" /\ call[c].pc = "done"
  /\ call[c].res \in {"TcpFail", "UdpFail"}

\* C3: once Start has returned a bind failure, the instance it made is in no
\* map entry, has no sampler and holds no bound socket.
C3_StartAtomic ==
  \A c \in Callers :
    BindFailed(c)
    => LET i == call[c].inst
       IN /\ \A k \in RuleIds : instances[k] # i
          /\ inst[i].sampler = "none"
          /\ inst[i].tcpListener # "bound"
          /\ inst[i].udpConn # "bound"

\* A Start of a "both" rule bound TCP, failed on UDP and has returned.
C3_Witness ==
  \E c \in Callers :
    /\ BindFailed(c) /\ call[c].res = "UdpFail"
    /\ inst[call[c].inst].rule.protocol = "both"
    /\ inst[call[c].inst].tcpListener = "closed"

\* C4: a Stop of an id without entry returns without failure and changes
\* nothing; and a Stop that stopped an instance leaves, at its return, no
\* entry for the id, the stop channel closed and the sockets closed, which
\* is the state in which a second Stop changes nothing.
C4_StopIdempotent ==
  [][\A c \in Callers :
       /\ (call[c].op = "idle" /\ call'[c].op = "stop"
           /\ instances[call'[c].id] = 0)
          => /\ call'[c].pc = "done"
             /\ call'[c].res = "ok"
             /\ UNCHANGED <<instances, inst, flow, hub, auth>>
       /\ (call[c].op = "stop" /\ call[c].pc # "done"
           /\ call'[c].pc = "done" /\ call'[c].res = "ok"
           /\ call'[c].inst # 0)
          => LET i == call'[c].inst
             IN /\ instances'[call'[c].id] = 0
                /\ inst'[i].stopCh = "closed"
                /\ inst'[i].tcpListener # "bound"
                /\ inst'[i].udpConn # "bound"]_vars

\* A Stop stopped a running instance and returned; a later Stop of the same
\* id found no entry and returned.
C4_Witness ==
  \E c, d \in Callers :
    /\ c < d
    /\ call[c].op = "stop" /\ call[c].pc = "done"
    /\ call[c].res = "ok" /\ call[c].inst # 0
    /\ call[d].op = "stop" /\ call[d].pc = "done"
    /\ call[d].res = "ok" /\ call[d].inst = 0
    /\ call[d].id = call[c].id

\* C5: concurrent Stop and StopAll calls close an instance's stop channel
\* once: no call ends in the panic of a second close.
C5_StopChannelClosedOnce ==
  \A c \in Callers : call[c].res # "panic"

\* No instance of the rule id holds a bound socket.
IdHoldsNoSocket(id) ==
  \A j \in InstIds :
    (inst[j].alloc /\ inst[j].rule.id = id)
    => (inst[j].tcpListener # "bound" /\ inst[j].udpConn # "bound")

\* C9: when Stop(id) returns, and no other call is in progress, a Start of
\* the rule would not be rejected (no entry for the id) and would not find
\* its source address held by an instance of the same rule.
C9_RestartAfterStop ==
  [][\A c \in Callers :
       (call[c].op = "stop" /\ call[c].pc = "delete" /\ call'[c].pc = "done"
        /\ \A d \in Callers \ {c} : call'[d].pc \in {"idle", "done"})
       => (instances'[call[c].id] = 0 /\ IdHoldsNoSocket(call[c].id)')]_vars

\* The tasks of an instance have ended.
TasksEnded(i) ==
  /\ inst[i].accept # "run"
  /\ inst[i].udpLoop # "run"
  /\ inst[i].sampler = "done"

\* C6: once Stop has closed the stop channel of an instance, its accept
\* loop, its receive loop and its sampler all end.
C6_TasksEndAfterStop ==
  \A i \in InstIds : Stopped(i) ~> TasksEnded(i)

\* A stopped "both" instance whose three tasks ran and have ended.
C6_Witness ==
  \E i \in InstIds :
    /\ Stopped(i)
    /\ inst[i].accept = "done"
    /\ inst[i].udpLoop = "done"
    /\ inst[i].sampler = "done"

\* C37: the accept loop of an instance whose TCP listener has been closed
\* eventually returns, also when the listener was closed by a Start that
\* failed to bind the UDP socket.
C37_AcceptLoopEndsAfterFailedStart ==
  \A i \in InstIds :
    (inst[i].accept = "run" /\ inst[i].tcpListener = "closed")
      ~> inst[i].accept = "done"

\* C38: an instance that is registered, and that no Stop has begun to end,
\* has its TCP listener bound exactly if its rule's protocol is tcp or
\* both, its UDP socket bound exactly if the protocol is udp or both, and
\* so at least one of the two.
C38_RegisteredHoldsListener ==
  \A i \in InstIds :
    (Registered(i) /\ inst[i].stopCh = "open")
    => /\ inst[i].tcpListener = "bound"
            <=> inst[i].rule.protocol \in {"tcp", "both"}
       /\ inst[i].udpConn = "bound"
            <=> inst[i].rule.protocol \in {"udp", "both"}
       /\ "bound" \in {inst[i].tcpListener, inst[i].udpConn}

\* A GetSession call that began after the revoking call d had returned, for
\* a token d was to revoke and CreateSession was not called with since.
AfterRevoking(c, d) ==
  /\ call[c].op = "get"
  /\ d \in auth.after[c]
  /\ call[c].id \in auth.scope[d]

\* C39: a GetSession(token) that begins after a DeleteSession(token) has
\* returned, with no CreateSession(token) in progress when that
\* DeleteSession began nor called since, does not return the session,
\* whatever other GetSession calls for the token run meanwhile and whether
\* or not the token's invalidTokens entry has expired.
C39_DeletedSessionStaysRejected ==
  \A c \in Callers : \A d \in Callers :
    (AfterRevoking(c, d) /\ call[d].op = "delete" /\ call[c].pc = "done")
    => call[c].res = "err"

\* C40: a GetSession(token) that begins after a DeleteAllSessions has
\* returned, for a token CreateSession was called with before that
\* DeleteAllSessions began and not since, does not return the session,
\* whatever GetSession and CreateSession calls ran during the deletion.
C40_NoSessionSurvivesDeleteAll ==
  \A c \in Callers : \A d \in Callers :
    (AfterRevoking(c, d) /\ call[d].op = "deleteall" /\ call[c].pc = "done")
    => call[c].res = "err"

(***************************************************************************)
(* Properties of the data plane.                                           *)
(***************************************************************************)

\* A Stop that met instance i has returned.
StopReturned(i) ==
  \E c \in Callers :
    /\ call[c].op = "stop" /\ call[c].pc = "done"
    /\ call[c].res = "ok" /\ call[c].inst = i

\* The TCP flow is over: both copiers have ended and both sockets are closed.
TcpEnded(f) ==
  /\ flow[f].cin = "done" /\ flow[f].cout = "done"
  /\ flow[f].client = "closed" /\ flow[f].remote = "closed"

\* C7: a TCP flow that is copying when Stop has returned comes to its end
\* (both copiers ended, both sockets closed), whatever its peers do.
C7_StopEndsTcpCopies ==
  \A f \in FlowIds :
    (flow[f].kind = "tcp" /\ flow[f].pc = "copy"
     /\ StopReturned(flow[f].inst))
    ~> TcpEnded(f)

\* C8: the response reader of a UDP session that is open when Stop has
\* returned comes to its end, whatever the target sends.
C8_StopEndsUdpSessions ==
  \A f \in FlowIds :
    (flow[f].kind = "udp" /\ flow[f].pc \in {"read", "fwd"}
     /\ StopReturned(flow[f].inst))
    ~> (flow[f].pc = "done")

\* A sampler tick or GetStatus can read instance i.
Observable(i) == inst[i].sampler = "run" \/ Registered(i)

\* C10: whenever the sampler or GetStatus can read them, an instance's
\* active-flow counter equals the number of entries of its active-flow map.
C10_CountMatchesMap ==
  \A i \in InstIds :
    Observable(i) => inst[i].connCount = Cardinality(inst[i].connections)

(***************************************************************************)
(* Properties of the byte accounting.                                      *)
(***************************************************************************)

\* C11: the byte totals of an instance never decrease, and neither do the
\* bytes_in and bytes_out of its successive relay.traffic samples.
C11_BytesMonotonic ==
  [][\A i \in InstIds :
       /\ inst'[i].bytesIn >= inst[i].bytesIn
       /\ inst'[i].bytesOut >= inst[i].bytesOut
       /\ inst'[i].traffic.bytes_in >= inst[i].traffic.bytes_in
       /\ inst'[i].traffic.bytes_out >= inst[i].traffic.bytes_out]_vars

\* Two samples with traffic between them: the last sample reports bytes, and
\* more bytes have been relayed since.
C11_Witness ==
  \E i \in InstIds :
    /\ inst[i].traffic.bytes_in > 0
    /\ inst[i].bytesIn > inst[i].traffic.bytes_in
    /\ inst[i].traffic.bytes_out > 0

\* No write of instance i is in progress: no copier is inside
\* countingWriter.Write, the receive loop is not handling a datagram and no
\* response reader is forwarding one.
NoWrite(i) ==
  /\ inst[i].udpPc = "idle"
  /\ \A f \in FlowIds :
       flow[f].inst = i
       => (flow[f].wIn = "idle" /\ flow[f].wOut = "idle"
           /\ flow[f].pc # "fwd")

\* C12: whenever no write is in progress, an instance's byte totals equal the
\* sums of BytesIn and of BytesOut over the records of all its flows.
C12_TotalsAreSums ==
  \A i \in InstIds :
    NoWrite(i)
    => /\ inst[i].bytesIn = FlowSum(FlowIds, i, "recIn")
       /\ inst[i].bytesOut = FlowSum(FlowIds, i, "recOut")

\* The flow's record has been appended to its instance's history.
InHistory(f) ==
  /\ flow[f].kind # "none"
  /\ \E j \in DOMAIN inst[flow[f].inst].history :
       inst[flow[f].inst].history[j] = f

\* C13: BytesIn and BytesOut of a flow's record never decrease, and do not
\* change once the record is in the history.
C13_RecordBytesFrozen ==
  [][\A f \in FlowIds :
       flow[f].kind # "none"
       => /\ flow'[f].recIn >= flow[f].recIn
          /\ flow'[f].recOut >= flow[f].recOut
          /\ InHistory(f) => /\ flow'[f].recIn = flow[f].recIn
                             /\ flow'[f].recOut = flow[f].recOut]_vars

\* A UDP session's record is in the history with bytes on it, and the
\* receive loop accounted a datagram to the session after the record got
\* its final fields.
C13_Witness ==
  \E f \in FlowIds :
    /\ InHistory(f) /\ flow[f].kind = "udp"
    /\ flow[f].recIn > 0
    /\ flow[f].cntIn > flow[f].recIn

\* The history holds the records k, k-1, ... down to the oldest it keeps.
NewestFirst(h) == \A j \in DOMAIN h : h[j] = Head(h) - j + 1

Min(a, b) == IF a < b THEN a ELSE b

\* C14: after every insertion the history has at most maxHistorySize
\* entries, holds the min(k, maxHistorySize) records inserted last, newest
\* first, and an insertion into a full history drops exactly the oldest.
C14_HistoryBounded ==
  [][\A i \in InstIds :
       LET h == inst[i].history
           g == inst'[i].history
       IN g # h
          => /\ Len(g) <= maxHistorySize
             /\ Len(g) = Min(Inserted(g), maxHistorySize)
             /\ NewestFirst(g)
             /\ Len(h) = maxHistorySize
                => g = <<Inserted(h) + 1>> \o SubSeq(h, 1, maxHistorySize - 1)
    ]_vars

\* The history is full and two records have been dropped from it.
C14_Witness ==
  \E i \in InstIds :
    /\ Len(inst[i].history) = maxHistorySize
    /\ Inserted(inst[i].history) = maxHistorySize + 2

\* C23: IsRunning and GetStatus report running exactly when the map has an
\* entry for the id as they look it up; without an entry GetStatus returns
\* running = false and zero counters; with an entry it returns running =
\* true and the counters of the registered instance as it loads them.
C23_StatusReflectsInstance ==
  [][\A c \in Callers :
       LET a == call[c]
           b == call'[c]
       IN  /\ (a.op = "idle" /\ b.op \in {"status", "isrunning"})
              => /\ b.status.running = (instances[b.id] # 0)
                 /\ instances[b.id] = 0
                    => /\ b.pc = "done"
                       /\ b.status.connections = 0
                       /\ b.status.bytesIn = 0
                       /\ b.status.bytesOut = 0
                 /\ (instances[b.id] # 0 /\ b.op = "status")
                    => b.inst = instances[b.id]
           /\ (a.op = "status" /\ a.pc # "done" /\ b.pc = "done")
              => /\ b.status.running
                 /\ b.status.bytesOut = inst[a.inst].bytesOut
           /\ (a.op = "status" /\ a.pc = "conns" /\ b.pc # "conns")
              => b.status.connections = inst[a.inst].connCount
           /\ (a.op = "status" /\ a.pc = "in" /\ b.pc # "in")
              => b.status.bytesIn = inst[a.inst].bytesIn
    ]_vars

\* One GetStatus met the instance with a connection that had relayed bytes;
\* another found no entry for its id.
C23_Witness ==
  \E c, d \in Callers :
    /\ call[c].op = "status" /\ call[c].pc = "done"
    /\ call[c].status.running
    /\ call[c].status.connections = 1
    /\ call[c].status.bytesIn > 0
    /\ call[d].op = "status" /\ call[d].pc = "done"
    /\ call[d].status = NoStatus

(***************************************************************************)
(* Properties of the flows.                                                *)
(***************************************************************************)

\* The TCP flow has run to the end of handleTCP with a target.
TcpCompleted(f) ==
  flow[f].kind = "tcp" /\ flow[f].pc = "done" /\ flow[f].remote # "nil"

\* The places of the flow's record in the history of its instance.
Places(f) ==
  {j \in DOMAIN inst[flow[f].inst].history :
     inst[flow[f].inst].history[j] = f}

\* C21: after a TCP flow has completed, the history of its instance holds
\* exactly one record of it, not active, of protocol "tcp", with BytesIn the
\* bytes the target's socket took and BytesOut the bytes the client's socket
\* took, and the flow is not in the active set.
C21_TcpFlowRecorded ==
  \A f \in FlowIds :
    TcpCompleted(f)
    => /\ Cardinality(Places(f)) = 1
       /\ ~flow[f].active
       /\ flow[f].kind = "tcp"
       /\ flow[f].recIn = flow[f].sunkIn
       /\ flow[f].recOut = flow[f].sunkOut
       /\ f \notin inst[flow[f].inst].connections

\* An echo: a flow has completed with MaxBytes bytes relayed each way.
C21_Witness ==
  \E f \in FlowIds :
    /\ TcpCompleted(f)
    /\ Places(f) = {1}
    /\ flow[f].recIn = MaxBytes
    /\ flow[f].recOut = MaxBytes

\* The UDP session is in the active set and neither the receive loop nor
\* its response reader is accounting a datagram of it.
UdpActive(f) ==
  /\ flow[f].kind = "udp"
  /\ f \in inst[flow[f].inst].connections
  /\ flow[f].active
  /\ inst[flow[f].inst].udpCur # f
  /\ flow[f].pc = "read"

\* C22: the record of an active UDP session, as the active set and the
\* relay.connections snapshots show it, has BytesIn equal to the bytes of
\* the client's datagrams forwarded so far and BytesOut equal to the bytes
\* of the target's replies relayed so far.
C22_UdpRecordLive ==
  \A f \in FlowIds :
    UdpActive(f)
    => /\ flow[f].recIn = flow[f].cntIn
       /\ flow[f].recOut = flow[f].cntOut

\* The handler of the TCP flow has returned from a failed dial.
DialHasFailed(f) ==
  flow[f].kind = "tcp" /\ flow[f].pc = "done" /\ flow[f].remote = "nil"

\* C25: the step in which the dial of an accepted connection fails leaves
\* the instance as it was (active set, connCount, history, byte totals and
\* the accept loop) and closes the client's connection; and a flow whose
\* dial has failed is in neither the active set nor the history, has no
\* bytes counted, and no connect log, disconnect log or stat.
C25_DialFailureRecordsNothing ==
  [][\A f \in FlowIds :
       /\ (flow[f].pc = "dial" /\ flow'[f].remote = "nil"
              /\ flow'[f].pc # "dial")
            => /\ inst' = inst
               /\ flow'[f].client = "closed"
       /\ DialHasFailed(f)'
            => /\ f \notin inst'[flow'[f].inst].connections
               /\ Places(f)' = {}
               /\ flow'[f].cntIn = 0 /\ flow'[f].cntOut = 0
               /\ flow'[f].recIn = 0 /\ flow'[f].recOut = 0
               /\ flow'[f].log = <<>>
               /\ flow'[f].client = "closed"
    ]_vars

\* The dial of the first connection has failed, and the accept loop has
\* accepted a second connection, which is being relayed.
C25_Witness ==
  /\ DialHasFailed(1)
  /\ flow[2].kind = "tcp" /\ flow[2].pc = "copy"
  /\ flow[2].recIn > 0

\* The handler of the flow is past its wait for the two copiers.
Finalized(f) ==
  /\ flow[f].kind = "tcp"
  /\ \/ flow[f].pc \in {"uncount", "hist"}
     \/ TcpCompleted(f)
     \/ Places(f) # {}

\* C26: the step in which a copier of a TCP flow ends sets the write side
\* of the opposite socket closed and nothing else: both sockets stay open
\* and the other copier is as it was.  While the copier client->target has
\* ended and the copier target->client has not, a reply of the target can
\* still be relayed and counted, and likewise the other way round.  The
\* flow is finalized, and a socket of it closed, only when both copiers
\* have ended.
C26_HalfCloseKeepsReverse ==
  [][\A f \in FlowIds :
       /\ (flow[f].cin = "run" /\ flow'[f].cin = "done")
            => /\ flow'[f].remoteShut
               /\ flow'[f].remote = "open" /\ flow'[f].client = "open"
               /\ flow'[f].clientShut = flow[f].clientShut
               /\ flow'[f].cout = flow[f].cout
       /\ (flow[f].cout = "run" /\ flow'[f].cout = "done")
            => /\ flow'[f].clientShut
               /\ flow'[f].remote = "open" /\ flow'[f].client = "open"
               /\ flow'[f].remoteShut = flow[f].remoteShut
               /\ flow'[f].cin = flow[f].cin
       /\ (/\ flow[f].cin = "done" /\ flow[f].cout = "run"
           /\ flow[f].wOut = "idle"
           /\ ~flow[f].remoteEOF /\ ~flow[f].errOut
           /\ inst[flow[f].inst].bytesOut < MaxBytes)
            => ENABLED CopyOutWrite(f, 1, 1, FALSE)
       /\ (/\ flow[f].cout = "done" /\ flow[f].cin = "run"
           /\ flow[f].wIn = "idle"
           /\ ~flow[f].clientEOF /\ ~flow[f].errIn
           /\ inst[flow[f].inst].bytesIn < MaxBytes)
            => ENABLED CopyInWrite(f, 1, 1, FALSE)
       /\ (Finalized(f)' \/ "closed" \in {flow'[f].client, flow'[f].remote})
            => \/ DialHasFailed(f)'
               \/ (flow'[f].cin = "done" /\ flow'[f].cout = "done")
       /\ (\/ flow'[f].remote = "closed"
           \/ (flow'[f].client = "closed" /\ ~DialHasFailed(f)'))
            => TcpCompleted(f)'
    ]_vars

\* The client has sent its bytes and closed its end; the write side of the
\* target's socket is closed, both sockets are open, and the copier
\* target->client is accounting a reply it has just relayed.
C26_Witness ==
  \E f \in FlowIds :
    /\ flow[f].cin = "done" /\ flow[f].clientEOF
    /\ flow[f].recIn = MaxBytes
    /\ flow[f].remoteShut /\ ~flow[f].clientShut
    /\ flow[f].remote = "open" /\ flow[f].client = "open"
    /\ flow[f].cout = "run" /\ flow[f].wOut = "total"

\* C27: whenever the io.Copy of a copier of a TCP flow has stopped on an
\* I/O error, the flow is eventually finalized: out of the active set, in
\* the history and not active, its disconnect logged, whatever the peer of
\* the other direction does.
C27_CopyErrorFinalizes ==
  \A f \in FlowIds :
    (flow[f].kind = "tcp" /\ (flow[f].errIn \/ flow[f].errOut))
      ~> /\ TcpCompleted(f)
         /\ f \notin inst[flow[f].inst].connections
         /\ Places(f) # {}
         /\ ~flow[f].active
         /\ Len(flow[f].log) = 3

\* C28: in the step in which the socket takes n > 0 bytes of a write of a
\* copier, the flow-local counter of the direction grows by n and the write
\* goes on to add to the total; the step that adds to the total adds that
\* same n; when the write returns, the record's field equals the counter;
\* a write of which the socket took nothing counts nothing; and no
\* counter, total or field ever goes down, whether or not the write
\* returned an error.
C28_WriteCountsActual ==
  [][\A f \in FlowIds :
       LET r == flow[f]
           i == flow[f].inst
           nIn == flow'[f].sunkIn - r.sunkIn
           nOut == flow'[f].sunkOut - r.sunkOut
       IN  r.kind = "tcp"
           => /\ (r.cin = "run" /\ r.wIn = "idle" /\ nIn > 0)
                   => /\ flow'[f].cntIn = r.cntIn + nIn
                      /\ flow'[f].wIn = "total"
              /\ (r.cout = "run" /\ r.wOut = "idle" /\ nOut > 0)
                   => /\ flow'[f].cntOut = r.cntOut + nOut
                      /\ flow'[f].wOut = "total"
              /\ (r.wIn = "total" /\ flow'[f].wIn = "record")
                   => /\ inst'[i].bytesIn + FlowSum(FlowIds \ {f}, i, "wlenIn")
                           = FlowSum(FlowIds, i, "sunkIn")
                      /\ inst'[i].bytesIn > inst[i].bytesIn
              /\ (r.wOut = "total" /\ flow'[f].wOut = "record")
                   => /\ inst'[i].bytesOut + FlowSum(FlowIds \ {f}, i, "wlenOut")
                           = FlowSum(FlowIds, i, "sunkOut")
                      /\ inst'[i].bytesOut > inst[i].bytesOut
              /\ (r.wIn = "record" /\ flow'[f].wIn = "idle")
                   => flow'[f].recIn = flow'[f].cntIn
              /\ (r.wOut = "record" /\ flow'[f].wOut = "idle")
                   => flow'[f].recOut = flow'[f].cntOut
              /\ nIn = 0 => flow'[f].cntIn = r.cntIn
              /\ nOut = 0 => flow'[f].cntOut = r.cntOut
              /\ flow'[f].recIn >= r.recIn /\ flow'[f].recOut >= r.recOut
              /\ inst'[i].bytesIn >= inst[i].bytesIn
              /\ inst'[i].bytesOut >= inst[i].bytesOut
    ]_vars

\* A write of the copier client->target has fallen short: the socket took
\* one byte, io.Copy has stopped, and the counter, the total and the record
\* show that one byte.
C28_Witness ==
  \E f \in FlowIds :
    /\ flow[f].kind = "tcp" /\ flow[f].errIn
    /\ flow[f].sunkIn = 1 /\ flow[f].cntIn = 1 /\ flow[f].recIn = 1
    /\ flow[f].wIn = "idle"
    /\ inst[flow[f].inst].bytesIn = 1

\* The flow has been entered in the active set of its instance at some
\* time.
Recorded(f) ==
  /\ flow[f].kind \in {"tcp", "udp"}
  /\ \/ f \in inst[flow[f].inst].connections
     \/ flow[f].log # <<>>
     \/ Places(f) # {}

\* The handler or the response reader of the flow has returned.
Terminated(f) == flow[f].pc = "done" /\ Places(f) # {}

\* C29: the store calls made for a recorded flow are, in order, one connect
\* log, one stat and one disconnect log: the connect log is made before
\* the flow relays anything, the other two when it terminates, and the
\* stat carries the BytesIn and BytesOut of the flow's final record.
C29_FlowLoggedOnce ==
  \A f \in FlowIds :
    Recorded(f)
    => /\ \/ flow[f].log = <<>> /\ flow[f].cntIn = 0 /\ flow[f].cntOut = 0
          \/ flow[f].log = <<"connect">> /\ ~Terminated(f)
          \/ flow[f].log = <<"connect", "stat", "disconnect">>
                /\ Terminated(f)
       /\ Terminated(f)
          => /\ flow[f].statIn = flow[f].recIn
             /\ flow[f].statOut = flow[f].recOut

\* The UDP flows of client address a in the active set of instance i.
ActiveUdp(i, a) ==
  {f \in inst[i].connections : flow[f].kind = "udp" /\ flow[f].addr = a}

\* C30: for every client address, the session map of an instance holds at
\* most one session, which is a session of that address, and the active
\* set holds at most one UDP flow of that address.
C30_OneSessionPerClient ==
  \A i \in InstIds, a \in Addrs :
    /\ inst[i].clients[a] # 0
         => /\ flow[inst[i].clients[a]].kind = "udp"
            /\ flow[inst[i].clients[a]].addr = a
            /\ flow[inst[i].clients[a]].inst = i
    /\ Cardinality(ActiveUdp(i, a)) <= 1

\* The UDP session has been reaped: it is out of the session map and of
\* the active set, and its record is in the history, not active.
Reaped(f) ==
  /\ flow[f].kind = "udp" /\ flow[f].pc = "done"
  /\ inst[flow[f].inst].clients[flow[f].addr] # f
  /\ f \notin inst[flow[f].inst].connections
  /\ Places(f) # {}
  /\ ~flow[f].active

RecordOf(f) ==
  [active |-> flow[f].active, bytesIn |-> flow[f].recIn,
   bytesOut |-> flow[f].recOut, duration |-> flow[f].duration]

\* This step is one of flow f's own handler, copiers or reader, or of the
\* receive loop handling a datagram for session f.
OwnStep(f) ==
  \/ flow'[f].pc # flow[f].pc
  \/ flow'[f].wIn # flow[f].wIn
  \/ flow'[f].wOut # flow[f].wOut
  \/ \E i \in InstIds :
       inst[i].udpCur = f /\ inst'[i].udpPc # inst[i].udpPc

\* C33: a step that changes a field of a flow's record is a step of that
\* flow's own data path; a step of GetConnections or of the sampler changes
\* no field of any record.
C33_ObserversOnlyRead ==
  [][\A f \in FlowIds :
       (flow[f].kind # "none" /\ RecordOf(f)' # RecordOf(f)) => OwnStep(f)
    ]_vars

\* C35: a relay.connections payload the sampler has published holds no two
\* records of the same flow.
C35_PayloadHasNoDuplicate ==
  \A i \in InstIds :
    inst[i].tick # "hist"
    => \A j, k \in DOMAIN inst[i].conns :
         inst[i].conns[j].id = inst[i].conns[k].id => j = k

\* C36: every record in the active set is Active, every record in the
\* history is not, and no copy the sampler has taken from the active set
\* is of a record that was not Active.
C36_ActiveSetIsActive ==
  \A i \in InstIds :
    /\ \A f \in inst[i].connections : flow[f].active
    /\ \A j \in DOMAIN inst[i].history : ~flow[inst[i].history[j]].active
    /\ inst[i].tick = "hist"
         => \A j \in DOMAIN inst[i].conns : inst[i].conns[j].active

(***************************************************************************)
(* Properties of the telemetry hub.                                        *)
(***************************************************************************)

\* This step is the publisher's visit of client s.
Visited(s) ==
  /\ hub.pub.pc = "loop"
  /\ s \in hub.pub.todo
  /\ s \notin hub'.pub.todo

\* C15: when the publisher visits a registered subscriber whose inbox has
\* room, the sample is put in the inbox if and only if its topic is in the
\* subscriber's topic set and the subscriber's relay filter is empty or
\* equals the sample's relay; otherwise the inbox is left as it was.  An
\* inbox grows in no other step.
C15_DeliveredIffMatching ==
  [][\A s \in Subs :
       LET c == hub.sub[s]
           match == /\ hub.pub.topic \in c.topics
                    /\ c.relayID = 0 \/ c.relayID = hub.pub.relay
       IN  /\ (Visited(s) /\ Len(c.send) < InboxCap)
              => /\ match => hub'.sub[s].send = Append(c.send, hub.pub.seq)
                 /\ ~match => hub'.sub[s].send = c.send
           /\ Len(hub'.sub[s].send) > Len(c.send) => Visited(s) /\ match
    ]_vars

\* A publish is over: subscriber 1, whose filter matches, has the sample in
\* its inbox; subscriber 2, subscribed to the topic for another relay, has
\* nothing.
C15_Witness ==
  /\ hub.pub.pc = "idle"
  /\ hub.clients = {1, 2}
  /\ hub.sub[1].relayID = hub.pub.relay
  /\ hub.sub[1].send = <<hub.pub.seq>>
  /\ hub.pub.topic \in hub.sub[2].topics
  /\ hub.sub[2].relayID \notin {0, hub.pub.relay}
  /\ hub.sub[2].send = <<>>

\* C16: once a publish that found a matching subscriber's inbox full has
\* returned, that subscriber is no longer in the hub and its inbox is
\* closed.  For an inbox of InboxCap slots that never drains, the publish
\* that finds it full is that of sample InboxCap + 1.
C16_FullInboxEvicts ==
  \A s \in Subs :
    (hub.sub[s].dropped /\ hub.pub.pc = "idle")
      => s \notin hub.clients /\ hub.sub[s].closed

\* The samples of an inbox are in the order the sampler emitted them.
Increasing(q) == \A j, k \in 1..Len(q) : j < k => q[j] < q[k]

\* C17: a publish visits every client of the hub, and a matching subscriber
\* whose inbox has room gets the sample at the back of its inbox whatever
\* the state of the other inboxes; the visit of another subscriber, slow or
\* not, leaves its inbox alone; the inbox holds the samples in the order
\* they were emitted and the writer takes the oldest first.
C17_SlowSubscriberIsolated ==
  [][/\ (hub.pub.pc = "idle" /\ hub'.pub.pc = "loop")
        => hub'.pub.todo = hub.clients
     /\ (hub.pub.pc = "loop" /\ hub'.pub.pc = "idle") => hub.pub.todo = {}
     /\ \A s \in Subs :
          LET c == hub.sub[s]
              d == hub'.sub[s]
              match == /\ hub.pub.topic \in c.topics
                       /\ c.relayID = 0 \/ c.relayID = hub.pub.relay
          IN  /\ (Visited(s) /\ match /\ Len(c.send) < InboxCap)
                 => d.send = Append(c.send, hub.pub.seq)
              /\ \A t \in Subs \ {s} : Visited(t) => d = c
              /\ Increasing(d.send)
              /\ Len(d.send) < Len(c.send) => d.send = Tail(c.send)
    ]_vars

\* One subscriber's inbox is full and has lost the sample that the other,
\* having drained its inbox, has just been given.
C17_Witness ==
  \E s, t \in Subs :
    /\ s # t
    /\ hub.pub.pc = "idle"
    /\ hub.pub.seq = InboxCap + 1
    /\ {s, t} \subseteq hub.clients
    /\ hub.sub[t].dropped
    /\ Len(hub.sub[t].send) = InboxCap
    /\ ~hub.sub[s].dropped
    /\ hub.sub[s].send = <<hub.pub.seq>>

\* C18: every call of BroadcastToRelay returns, whatever the subscribers
\* do: inside the call the set of clients still to visit only shrinks, the
\* call never sends on a closed inbox, and under HubFairness a call that
\* has begun comes to its end.
C18_PublishReturns ==
  /\ [][hub.pub.pc = "loop" =>
          \/ hub'.pub.pc = "idle"
          \/ hub'.pub.pc = "loop" /\ hub'.pub.todo \subseteq hub.pub.todo]_vars
  /\ [](hub.pub.pc # "panic")
  /\ [](hub.pub.pc = "loop" => <>(hub.pub.pc = "idle"))

\* A call has returned although one subscriber's inbox was full and its
\* writer had ended, and the other's reader was waiting to unregister it.
C18_Witness ==
  \E s, t \in Subs :
    /\ hub.pub.pc = "idle"
    /\ hub.pub.seq = MaxSamples
    /\ hub.sub[s].dropped
    /\ Len(hub.sub[s].send) = InboxCap
    /\ hub.sub[s].writer = "done"
    /\ hub.sub[t].state = "unreg"
    /\ t \in hub.clients

C34_InboxClosedOnceAfterRemoval ==
  [][\A s \in Subs :
       LET c == hub.sub[s]
           d == hub'.sub[s]
       IN  /\ (~c.closed /\ d.closed)
                => s \in hub.clients /\ s \notin hub'.clients
           /\ c.closed
                => /\ d.closed
                   /\ s \notin hub.clients /\ s \notin hub'.clients
                   /\ Len(d.send) <= Len(c.send)
           /\ hub'.pub.pc # "panic"
    ]_vars

\* A publish is under way after subscriber s has left: the inbox of s is
\* closed and does not have the sample, and another subscriber has it.
C34_Witness ==
  \E s, t \in Subs :
    /\ hub.sub[s].closed /\ s \notin hub.clients
    /\ hub.pub.seq > 0
    /\ \A j \in DOMAIN hub.sub[s].send : hub.sub[s].send[j] # hub.pub.seq
    /\ t \in hub.clients
    /\ hub.sub[t].send # <<>>
    /\ hub.sub[t].send[Len(hub.sub[t].send)] = hub.pub.seq

(***************************************************************************)
(* Properties of the rate estimator.                                       *)
(***************************************************************************)

\* C19: the speeds of every relay.traffic sample are non-negative integers,
\* and a smoothed rate is 0 or at least 1 byte per second.
C19_RateQuantized ==
  \A i \in InstIds :
    /\ inst[i].traffic.bytes_in_speed \in Nat
    /\ inst[i].traffic.bytes_out_speed \in Nat
    /\ inst[i].smoothSpeedIn = 0 \/ inst[i].smoothSpeedIn >= Scale
    /\ inst[i].smoothSpeedOut = 0 \/ inst[i].smoothSpeedOut >= Scale

\* After traffic, the inbound rate has decayed to between 1 and 2 bytes per
\* second: the next idle tick takes it below 1.
C19_Witness ==
  \E i \in InstIds :
    /\ inst[i].smoothSpeedIn >= Scale
    /\ inst[i].smoothSpeedIn < Scale + Scale \div 2
    /\ inst[i].traffic.bytes_in_speed = 1

\* The smoothed rate after k more ticks without traffic.
RECURSIVE IdleTicks(_, _)
IdleTicks(smooth, k) ==
  IF k = 0 THEN smooth ELSE IdleTicks(Quantize(Ema(smooth, 0)), k - 1)

\* C20: from a smoothed rate of at most 100 bytes per second, 13 ticks
\* without traffic bring the rate to 0, and a further idle tick leaves it 0.
C20_RateDecaysToZero ==
  \A i \in InstIds :
    /\ inst[i].smoothSpeedIn <= 100 * Scale
       => /\ IdleTicks(inst[i].smoothSpeedIn, 13) = 0
          /\ IdleTicks(inst[i].smoothSpeedIn, 14) = 0
    /\ inst[i].smoothSpeedOut <= 100 * Scale
       => /\ IdleTicks(inst[i].smoothSpeedOut, 13) = 0
          /\ IdleTicks(inst[i].smoothSpeedOut, 14) = 0

\* The rate was 100 bytes per second, and idle ticks have taken it to 0.
C20_Witness ==
  \E i \in InstIds :
    /\ inst[i].lastBytesIn = 100
    /\ inst[i].bytesIn = 100
    /\ inst[i].smoothSpeedIn = 0
    /\ inst[i].traffic.bytes_in_speed = 0

\* This step is a tick of instance i's sampler: the instance changes and its
\* totals do not.
Ticked(i) ==
  /\ inst'[i] # inst[i]
  /\ inst'[i].bytesIn = inst[i].bytesIn
  /\ inst'[i].bytesOut = inst[i].bytesOut

\* The smoothed rate a tick is to leave, from the previous rate and the
\* totals now and at the previous tick.
Smoothed(previous, total, last) ==
  LET delta == total - last
      rate == IF previous = 0 /\ delta > 0
                THEN delta * Scale
                ELSE (AlphaNum * delta * Scale
                      + (AlphaDen - AlphaNum) * previous) \div AlphaDen
  IN IF rate < Scale THEN 0 ELSE rate

\* C24: a tick takes delta = total - total at the previous tick; a smoothed
\* rate of 0 with delta > 0 becomes delta, any other becomes 0.3 * delta +
\* 0.7 * previous; a result below 1 becomes 0; the total at the previous tick
\* becomes the total now.  For both directions.
C24_TickUpdatesEstimator ==
  [][\A i \in InstIds :
       Ticked(i)
       => /\ inst'[i].smoothSpeedIn =
               Smoothed(inst[i].smoothSpeedIn, inst[i].bytesIn,
                        inst[i].lastBytesIn)
          /\ inst'[i].smoothSpeedOut =
               Smoothed(inst[i].smoothSpeedOut, inst[i].bytesOut,
                        inst[i].lastBytesOut)
          /\ inst'[i].lastBytesIn = inst[i].bytesIn
          /\ inst'[i].lastBytesOut = inst[i].bytesOut
    ]_vars

\* Inbound, a tick met two bursts with the rate at 0 and seeded it with
\* their sum; outbound, a seeded rate was blended with an idle tick.
C24_Witness ==
  \E i \in InstIds :
    /\ inst[i].smoothSpeedIn = 2 * BurstLen * Scale
    /\ inst[i].smoothSpeedOut =
         ((AlphaDen - AlphaNum) * BurstLen * Scale) \div AlphaDen

====
